---- MODULE Spec2Model ----
(***************************************************************************)
(* Ephemeris: per-day event expansion, filtering, overlap layout and       *)
(* change detection (src/ephemeris.py, src/ephemeris/event_processing.py). *)
(*                                                                         *)
(* Time is an integer number of minutes on the local axis of               *)
(* settings.TZ_LOCAL: local midnight of date n is n * MinutesPerDay.  A    *)
(* calendar date is its day number.  Zones are fixed offsets.              *)
(***************************************************************************)
EXTENDS Integers, Sequences, FiniteSets, TLC

VARIABLES
    pc,            \* position of the modelled procedure
    settings,      \* ephemeris.settings: the configuration the run reads
    events,        \* assign_stacks: the list of timed instances passed in
    result,        \* assign_stacks: the list of layered events returned
    raw_events,    \* main: the raw events [comp, color, tzf, name], or the coroutine of line 59
    override_map,  \* main: UID -> set of overridden recurrence values
    d,             \* main: the date being processed
    raw_i,         \* main: position of the raw-event loop (line 101)
    instances,     \* main: the day's deduplicated instances (line 99)
    seen,          \* main: the UIDs accepted for the day
    all_day,       \* main: the filtered all-day instances
    timed,         \* main: the filtered timed instances
    final,         \* the list expand_event_for_day returned
    rendered,      \* the pages drawn on the canvas, one per date
    date_list,     \* main: the dates to render
    persisted,     \* the record save_meta wrote, as load_meta will read it
    meta,          \* main: the record load_meta returned
    anchor,        \* main: the anchor of this run's date range
    new_hash,      \* main: the digest of this run's raw events
    runs,          \* number of runs started
    change,        \* how the calendars changed after the digest was computed, and that digest
    config,        \* load_config: the configured calendars, as their sources hold them
    sources,       \* load_raw_events: the calendar entries passed in
    src_i,         \* load_raw_events: position of the loop over the local sources
    all_events,    \* load_raw_events: the raw events accumulated so far
    http_results,  \* load_raw_events: what each network fetch settled to, "pending" before
    first_pass     \* the instances an earlier pass of the per-day loop produced

vars == <<pc, settings, events, result, raw_events, override_map, d, raw_i,
          instances, seen, all_day, timed, final, rendered,
          date_list, persisted, meta, anchor, new_hash, runs, change, config,
          sources, src_i, all_events, http_results, first_pass>>

loadVars == <<sources, src_i, all_events, http_results>>

runVars == <<date_list, persisted, meta, anchor, new_hash, runs, change, config, loadVars,
             first_pass>>

stackVars == <<events, result>>
dayVars   == <<raw_events, override_map, d, raw_i, instances, seen, all_day, timed, final,
              rendered>>

(***************************************************************************)
(* Bounds of the model.                                                    *)
(***************************************************************************)
MaxTick   == 3      \* assign_stacks inputs start and end in 0..MaxTick
MaxEvents == 3      \* assign_stacks inputs hold at most MaxEvents instances
MaxDate   == 2      \* target dates are the days 0..MaxDate
MaxRaw    == 2      \* a day is expanded from at most MaxRaw raw events

(***************************************************************************)
(* Helpers on sequences.                                                   *)
(***************************************************************************)
RECURSIVE SeqsUpTo(_, _)
SeqsUpTo(S, n) ==
    IF n = 0 THEN {<<>>}
    ELSE LET shorter == SeqsUpTo(S, n - 1)
         IN  shorter \cup {Append(s, x) : s \in {t \in shorter : Len(t) = n - 1}, x \in S}

Min(a, b) == IF a <= b THEN a ELSE b
Max(a, b) == IF a >= b THEN a ELSE b

\* iteration of a set of list indices in ascending order
RECURSIVE Ascending(_)
Ascending(S) ==
    IF S = {} THEN <<>>
    ELSE LET m == CHOOSE x \in S : \A y \in S : x <= y
         IN  <<m>> \o Ascending(S \ {m})

(***************************************************************************)
(* assign_stacks (event_processing.py 36-109).  An instance is a record    *)
(* [start, end, title, meta]; list positions are 1-based here.             *)
(***************************************************************************)
overlaps(e1, e2) == e1.start < e2.end /\ e2.start < e1.end

\* lines 44-49: the overlap graph, node -> set of adjacent nodes
OverlapGraph(evs) ==
    [i \in 1..Len(evs) |->
        {j \in 1..Len(evs) : j # i /\ overlaps(evs[Min(i, j)], evs[Max(i, j)])}]

\* mutant: the traversal stops at the neighbours of its first node
BfsDirect(graph, queue, visited, cluster) ==
    LET found == ({Head(queue)} \cup graph[Head(queue)]) \ visited
    IN  [visited |-> visited \cup found, cluster |-> cluster \o Ascending(found)]

\* lines 56-63: one breadth-first traversal from the queue
RECURSIVE Bfs(_, _, _, _)
Bfs(graph, queue, visited, cluster) ==
    IF queue = <<>> THEN [visited |-> visited, cluster |-> cluster]
    ELSE LET node == Head(queue)
         IN  IF node \notin visited
             THEN Bfs(graph, Tail(queue) \o Ascending(graph[node]),
                      visited \cup {node}, Append(cluster, node))
             ELSE Bfs(graph, Tail(queue), visited, cluster)

\* lines 52-64: the clusters, each a list of nodes in traversal order
RECURSIVE FindClusters(_, _, _, _, _)
FindClusters(graph, n, i, visited, clusters) ==
    IF i > n THEN clusters
    ELSE IF i \in visited THEN FindClusters(graph, n, i + 1, visited, clusters)
    ELSE LET b == Bfs(graph, <<i>>, visited, <<>>)
         IN  FindClusters(graph, n, i + 1, b.visited, Append(clusters, b.cluster))

\* mutant: the sort key is the start alone
SortKeyLeqByStart(evs, i, j) == evs[i].start <= evs[j].start

\* line 73: the sort key (-(duration), start), compared as a tuple
SortKeyLeq(evs, i, j) ==
    LET di == evs[i].end - evs[i].start
        dj == evs[j].end - evs[j].start
    IN  \/ -di < -dj
        \/ -di = -dj /\ evs[i].start <= evs[j].start

\* lines 71-74: sorted() is stable: a node goes after every node whose key is <= its own
RECURSIVE SortCluster(_, _, _)
SortCluster(evs, cluster, sorted) ==
    IF cluster = <<>> THEN sorted
    ELSE LET x == Head(cluster)
             k == Cardinality({p \in 1..Len(sorted) :
                                 \A q \in 1..p : SortKeyLeq(evs, sorted[q], x)})
         IN  SortCluster(evs, Tail(cluster),
                         SubSeq(sorted, 1, k) \o <<x>> \o SubSeq(sorted, k + 1, Len(sorted)))

\* mutant: an instance may start inside a member of the layer
FitsLayerFromStart(layer, start, end) ==
    \A m \in 1..Len(layer) : end <= layer[m][1] \/ start >= layer[m][1]

\* line 80: the instance fits a layer when it overlaps none of its members
FitsLayer(layer, start, end) ==
    \A m \in 1..Len(layer) : end <= layer[m][1] \/ start >= layer[m][2]

\* mutant: the layer index counts from 1
PlaceOneFromOne(layers, start, end) ==
    LET fit == {li \in 1..Len(layers) : FitsLayer(layers[li], start, end)}
    IN  IF fit # {}
        THEN LET li == CHOOSE x \in fit : \A y \in fit : x <= y
             IN  [layers |-> [layers EXCEPT ![li] = Append(@, <<start, end>>)], li |-> li]
        ELSE [layers |-> Append(layers, <<<<start, end>>>>), li |-> Len(layers) + 1]

\* lines 79-87: first existing layer that fits, else a new layer (0-based layer index)
PlaceOne(layers, start, end) ==
    LET fit == {li \in 1..Len(layers) : FitsLayer(layers[li], start, end)}
    IN  IF fit # {}
        THEN LET li == CHOOSE x \in fit : \A y \in fit : x <= y
             IN  [layers |-> [layers EXCEPT ![li] = Append(@, <<start, end>>)], li |-> li - 1]
        ELSE [layers |-> Append(layers, <<<<start, end>>>>), li |-> Len(layers)]

\* lines 75-87: layers and assignments after every instance of the sorted cluster
RECURSIVE PlaceAll(_, _, _, _)
PlaceAll(evs, sorted, layers, assignments) ==
    IF sorted = <<>> THEN [layers |-> layers, assignments |-> assignments]
    ELSE LET x == Head(sorted)
             p == PlaceOne(layers, evs[x].start, evs[x].end)
         IN  PlaceAll(evs, Tail(sorted), p.layers, [assignments EXCEPT ![x] = p.li])

\* mutant: the depth counted from the deepest layer index
WidthFracOffByOne(max_depth, li) == <<max_depth - li - 1, max_depth>>

\* line 100: width_frac as the fraction <<numerator, denominator>>
WidthFrac(max_depth, li) == <<max_depth - li, max_depth>>

\* lines 67-108: the layered events of one cluster, in cluster order
LayerCluster(evs, cluster) ==
    LET placed    == PlaceAll(evs, SortCluster(evs, cluster, <<>>), <<>>,
                              [x \in 1..Len(evs) |-> 0])
        max_depth == Len(placed.layers)
    IN  [k \in 1..Len(cluster) |->
            [start       |-> evs[cluster[k]].start,
             end         |-> evs[cluster[k]].end,
             title       |-> evs[cluster[k]].title,
             meta        |-> evs[cluster[k]].meta,
             layer_index |-> placed.assignments[cluster[k]],
             width_frac  |-> WidthFrac(max_depth, placed.assignments[cluster[k]])]]

\* mutant: a cluster of one event is left out
RECURSIVE LayerClustersOfSeveral(_, _)
LayerClustersOfSeveral(evs, clusters) ==
    IF clusters = <<>> THEN <<>>
    ELSE (IF Len(Head(clusters)) = 1 THEN <<>> ELSE LayerCluster(evs, Head(clusters)))
         \o LayerClustersOfSeveral(evs, Tail(clusters))

RECURSIVE LayerClusters(_, _)
LayerClusters(evs, clusters) ==
    IF clusters = <<>> THEN <<>>
    ELSE LayerCluster(evs, Head(clusters)) \o LayerClusters(evs, Tail(clusters))

assign_stacks(evs) ==
    LayerClusters(evs, FindClusters(OverlapGraph(evs), Len(evs), 1, {}, <<>>))

(***************************************************************************)
(* Calendar values.  A decoded DTSTART, DTEND, UNTIL, EXDATE or            *)
(* RECURRENCE-ID is a record [kind, v, tzid]:                              *)
(*   kind "date"  : a date-only value, v its day number;                   *)
(*   kind "aware" : a zoned datetime, v its instant on the local axis;     *)
(*   kind "naive" : a datetime without tzinfo, v its wall-clock minutes,   *)
(*                  tzid the TZID parameter of the property ("" if none);  *)
(*   kind "none"  : the property is absent.                                *)
(* A component is a record of its properties; a raw event is the tuple     *)
(* [comp, color, tzf, name] of calendar_loader.extract_raw_events.  A tzf  *)
(* is [has, tzid, offset]: the zone its VTIMEZONE block defines.           *)
(***************************************************************************)
MinutesPerDay  == 1440
MinutesPerHour == 60

NoDt        == [kind |-> "none", v |-> 0, tzid |-> ""]
DateV(n)    == [kind |-> "date", v |-> n, tzid |-> ""]
Aware(t)    == [kind |-> "aware", v |-> t, tzid |-> ""]
Naive(w, z) == [kind |-> "naive", v |-> w, tzid |-> z]

IsDateOnly(dt) == dt.kind = "date"                  \* isinstance(x, date) and not datetime
IsDatetime(dt) == dt.kind \in {"aware", "naive"}

DateOf(t) == t \div MinutesPerDay                   \* datetime.date() on the local axis
HourOf(t) == (t % MinutesPerDay) \div MinutesPerHour
MinuteOf(t) == t % MinutesPerHour

\* datetime.combine(target_date, time.min).replace(tzinfo=tz_local)
StartOfDay(target_date) == target_date * MinutesPerDay

\* raw + timedelta: a date moves by the timedelta's whole days, a datetime by its minutes
AddDuration(dt, minutes) ==
    IF dt.kind = "date" THEN [dt EXCEPT !.v = @ + (minutes \div MinutesPerDay)]
    ELSE [dt EXCEPT !.v = @ + minutes]

\* _get_raw_end (lines 11-33): DTEND, else DTSTART + DURATION, else DTSTART
get_raw_end(comp) ==
    IF comp.dtend.kind # "none" THEN comp.dtend
    ELSE IF comp.duration.has THEN AddDuration(comp.dtstart, comp.duration.v)
    ELSE comp.dtstart

\* lines 158-165: the UTC offset attached to a naive value read under param_name
AttachedOffset(comp, tzf, param_name) ==
    LET prop == IF param_name = "dtstart" THEN comp.dtstart ELSE comp.dtend
        tzid == IF prop.kind # "none" THEN prop.tzid ELSE ""
    IN  IF tzf.has /\ tzid # ""
        THEN IF tzid = tzf.tzid THEN tzf.offset ELSE 0      \* unknown TZID: except -> UTC
        ELSE 0

\* normalize (lines 150-170): the instant, on the local axis, of a raw value
normalize(comp, tzf, dt_raw, param_name, tz_local) ==
    LET wall == IF dt_raw.kind = "date" THEN dt_raw.v * MinutesPerDay ELSE dt_raw.v
    IN  IF dt_raw.kind = "aware" THEN dt_raw.v
        ELSE wall - AttachedOffset(comp, tzf, param_name) + tz_local

\* utils.fmt_time: the clock time of an instant
fmt_time(t) == <<HourOf(t), MinuteOf(t)>>

\* mutant: a datetime UNTIL is moved a day back by every call
RewriteUntilShifting(rrule, tz_local) ==
    IF rrule.until.kind = "date"
    THEN [rrule EXCEPT !.until = Aware(rrule.until.v * MinutesPerDay + tz_local)]
    ELSE IF rrule.until.kind = "aware"
    THEN [rrule EXCEPT !.until = Aware(rrule.until.v - MinutesPerDay)]
    ELSE rrule

\* lines 196-202: a date-only UNTIL becomes midnight UTC of that date
RewriteUntil(rrule, tz_local) ==
    IF rrule.until.kind = "date"
    THEN [rrule EXCEPT !.until = Aware(rrule.until.v * MinutesPerDay + tz_local)]
    ELSE rrule

\* lines 214-223: the exception dates; a naive one gets tz_local attached
ExDates(comp) ==
    {IF x.kind = "naive" THEN Aware(x.v) ELSE [x EXCEPT !.tzid = ""] : x \in comp.exdate}

\* occ in <set of decoded values>: a zoned occurrence equals only a zoned value
\* of the same instant
OccIn(occ, dts) == \E x \in dts : x.kind = "aware" /\ x.v = occ

\* override_map.get(uid, set())
OverridesOf(omap, uid) ==
    IF uid \in DOMAIN omap THEN omap[uid] ELSE {}

\* rule.between(sod, sod_next, inc=True) for a rule started at the zoned instant s
Between(rrule, s, sod, sod_next) ==
    IF sod_next < s THEN {}
    ELSE {t \in {s + k * rrule.interval : k \in 0..((sod_next - s) \div rrule.interval)} :
            /\ sod <= t /\ t <= sod_next
            /\ rrule.until.kind = "aware" => t <= rrule.until.v}

\* mutant: the overridden occurrences of every UID are skipped
RuleInstancesAnyUid(comp, color, tzf, sod, sod_next, tz_local, omap) ==
    LET uid   == comp.uid
        start == normalize(comp, tzf, comp.dtstart, "dtstart", tz_local)
        end0  == normalize(comp, tzf, get_raw_end(comp), "dtend", tz_local)
        rule  == RewriteUntil(comp.rrule, tz_local)
        occs  == Ascending({occ \in Between(rule, comp.dtstart.v, sod, sod_next) :
                              /\ ~OccIn(occ, UNION {omap[u] : u \in DOMAIN omap})
                              /\ ~OccIn(occ, ExDates(comp))})
    IN  [k \in 1..Len(occs) |->
            [start |-> occs[k], end |-> occs[k] + (end0 - start), title |-> comp.summary,
             meta  |-> [uid |-> uid, calendar_color |-> color, all_day |-> FALSE,
                        time_label |-> <<>>]]]

\* lines 225-235: the instances of a recurring component with a zoned DTSTART
RuleInstances(comp, color, tzf, sod, sod_next, tz_local, omap) ==
    LET uid   == comp.uid
        start == normalize(comp, tzf, comp.dtstart, "dtstart", tz_local)
        end0  == normalize(comp, tzf, get_raw_end(comp), "dtend", tz_local)
        rule  == RewriteUntil(comp.rrule, tz_local)
        occs  == Ascending({occ \in Between(rule, comp.dtstart.v, sod, sod_next) :
                              /\ ~OccIn(occ, OverridesOf(omap, uid))
                              /\ ~OccIn(occ, ExDates(comp))})
    IN  [k \in 1..Len(occs) |->
            [start |-> occs[k], end |-> occs[k] + (end0 - start), title |-> comp.summary,
             meta  |-> [uid |-> uid, calendar_color |-> color, all_day |-> FALSE,
                        time_label |-> <<>>]]]

\* lines 237-243: the instance of a non-recurring timed component
OneOffInstances(comp, color, tzf, target_date, tz_local) ==
    LET start == normalize(comp, tzf, comp.dtstart, "dtstart", tz_local)
        end   == normalize(comp, tzf, get_raw_end(comp), "dtend", tz_local)
    IN  IF DateOf(start) = target_date
        THEN <<[start |-> start, end |-> end, title |-> comp.summary,
                meta  |-> [uid |-> comp.uid, calendar_color |-> color, all_day |-> FALSE,
                           time_label |-> <<>>]]>>
        ELSE <<>>

\* mutant: an off-grid instance is marked all-day but keeps its bounds
OffGridUnclamped(inst, sod, sod_next, cfg) ==
    LET grid_start == sod + cfg.START_HOUR * MinutesPerHour
        grid_end   == sod + cfg.END_HOUR * MinutesPerHour
    IN  IF cfg.CONVERT_OFFGRID_TO_ALLDAY /\ (inst.end <= grid_start \/ inst.start >= grid_end)
        THEN [inst EXCEPT !.meta.all_day = TRUE,
                          !.meta.time_label = <<fmt_time(inst.start), fmt_time(inst.end)>>]
        ELSE inst

\* lines 253-265: the off-grid reclassification of one instance
OffGrid(inst, sod, sod_next, cfg) ==
    LET grid_start == sod + cfg.START_HOUR * MinutesPerHour
        grid_end   == sod + cfg.END_HOUR * MinutesPerHour
        off_before == inst.end <= grid_start
        off_after  == inst.start >= grid_end
    IN  IF cfg.CONVERT_OFFGRID_TO_ALLDAY /\ (off_before \/ off_after)
        THEN [start |-> Max(inst.start, sod), end |-> Min(inst.end, sod_next),
              title |-> inst.title,
              meta  |-> [inst.meta EXCEPT !.all_day = TRUE,
                             !.time_label = <<fmt_time(inst.start), fmt_time(inst.end)>>]]
        ELSE inst

\* mutant: an instance starting at the end of the day overlaps it
OverlapsDayInclusive(inst, sod, sod_next) == inst.end > sod /\ inst.start <= sod_next

\* line 250: the instance overlaps the day
OverlapsDay(inst, sod, sod_next) == inst.end > sod /\ inst.start < sod_next

\* lines 245-267: the final list
RECURSIVE FinalList(_, _, _, _)
FinalList(insts, sod, sod_next, cfg) ==
    IF insts = <<>> THEN <<>>
    ELSE LET rest == FinalList(Tail(insts), sod, sod_next, cfg)
         IN  IF ~OverlapsDay(Head(insts), sod, sod_next) THEN rest
             ELSE <<OffGrid(Head(insts), sod, sod_next, cfg)>> \o rest

\* mutant: a date-only component is present on its end date too
DateOnlyInstancesInclusive(comp, color, target_date) ==
    LET sod == StartOfDay(target_date)
    IN  IF comp.dtstart.v <= target_date /\ target_date <= get_raw_end(comp).v
        THEN <<[start |-> sod, end |-> sod + MinutesPerDay, title |-> comp.summary,
                meta  |-> [uid |-> comp.uid, calendar_color |-> color, all_day |-> TRUE,
                           time_label |-> <<>>]]>>
        ELSE <<>>

\* lines 178-188: the whole result for a date-only component whose end is a date
DateOnlyInstances(comp, color, target_date) ==
    LET sod == StartOfDay(target_date)
    IN  IF comp.dtstart.v <= target_date /\ target_date < get_raw_end(comp).v
        THEN <<[start |-> sod, end |-> sod + MinutesPerDay, title |-> comp.summary,
                meta  |-> [uid |-> comp.uid, calendar_color |-> color, all_day |-> TRUE,
                           time_label |-> <<>>]]>>
        ELSE <<>>

(***************************************************************************)
(* expand_event_for_day (lines 126-267).  The value is                     *)
(* [final, instances, raised, comp]: the list returned, the local list     *)
(* instances as it stands at line 245, whether the call raised instead of  *)
(* returning, and the component as the call leaves it (line 200 assigns    *)
(* into the component's own RRULE value).                                  *)
(***************************************************************************)
expand_event_for_day(comp, color, tzf, target_date, cfg, omap) ==
    LET sod      == StartOfDay(target_date)
        sod_next == sod + MinutesPerDay
        tz_local == cfg.TZ_LOCAL
        Returns(insts) ==
            [final |-> FinalList(insts, sod, sod_next, cfg), instances |-> insts,
             raised |-> FALSE, comp |-> [comp EXCEPT !.rrule = RewriteUntil(@, tz_local)]]
        Raises ==
            [final |-> <<>>, instances |-> <<>>, raised |-> TRUE,
             comp |-> [comp EXCEPT !.rrule = RewriteUntil(@, tz_local)]]
    IN  IF IsDateOnly(comp.dtstart)
        THEN \* line 182: comparing a date with a datetime end raises TypeError
             IF IsDatetime(get_raw_end(comp)) /\ comp.dtstart.v <= target_date
             THEN [final |-> <<>>, instances |-> <<>>, raised |-> TRUE, comp |-> comp]
             ELSE IF IsDatetime(get_raw_end(comp))
             THEN [final |-> <<>>, instances |-> <<>>, raised |-> FALSE, comp |-> comp]
             ELSE [final |-> DateOnlyInstances(comp, color, target_date),
                   instances |-> <<>>, raised |-> FALSE, comp |-> comp]
        ELSE IF comp.rrule.has
        THEN \* a rule started at a naive DTSTART cannot be compared with sod
             IF comp.dtstart.kind = "naive"
             THEN Raises
             ELSE Returns(RuleInstances(comp, color, tzf, sod, sod_next, tz_local, omap))
        ELSE [final |-> FinalList(OneOffInstances(comp, color, tzf, target_date, tz_local),
                                  sod, sod_next, cfg),
              instances |-> OneOffInstances(comp, color, tzf, target_date, tz_local),
              raised |-> FALSE, comp |-> comp]

\* mutant: a later RECURRENCE-ID of a UID replaces the earlier ones
build_override_map_last(raws) ==
    LET marked == {k \in 1..Len(raws) : raws[k].comp.recurrence_id.kind # "none"}
    IN  [u \in {raws[k].comp.uid : k \in marked} |->
            LET mine == {m \in marked : raws[m].comp.uid = u}
            IN  {raws[CHOOSE m \in mine : \A n \in mine : n <= m].comp.recurrence_id}]

\* build_override_map (lines 112-123): UID -> set of decoded RECURRENCE-ID values
build_override_map(raws) ==
    LET marked == {k \in 1..Len(raws) : raws[k].comp.recurrence_id.kind # "none"}
    IN  [u \in {raws[k].comp.uid : k \in marked} |->
            {raws[k].comp.recurrence_id : k \in {m \in marked : raws[m].comp.uid = u}}]

(***************************************************************************)
(* Text.  A title or denylist word is a sequence of character codes; the   *)
(* codes above UpperBase are the upper-case forms of the codes below it.   *)
(***************************************************************************)
UpperBase == 100

\* str.lower()
Lower(text) == [k \in 1..Len(text) |-> IF text[k] > UpperBase THEN text[k] - UpperBase ELSE text[k]]

\* mutant: tl.startswith(v)
IsSubstringAtStart(v, tl) ==
    Len(v) <= Len(tl) /\ \A m \in 1..Len(v) : tl[m] = v[m]

\* v in tl, for strings
IsSubstring(v, tl) ==
    \E k \in 0..(Len(tl) - Len(v)) : \A m \in 1..Len(v) : tl[k + m] = v[m]

(***************************************************************************)
(* split_all_day_events (lines 270-279) and filter_events_for_day          *)
(* (lines 282-306).                                                        *)
(***************************************************************************)
IsAllDay(inst, target_date) ==
    \/ inst.meta.all_day
    \/ inst.start <= StartOfDay(target_date)
       /\ inst.end >= StartOfDay(target_date) + MinutesPerDay

split_all_day_events(evs, target_date) ==
    [all_day |-> SelectSeq(evs, LAMBDA e : IsAllDay(e, target_date)),
     timed   |-> SelectSeq(evs, LAMBDA e : ~IsAllDay(e, target_date))]

\* meta.get('status', '')
StatusOf(meta_info) == IF "status" \in DOMAIN meta_info THEN meta_info.status ELSE <<>>

\* lines 285-305: the instance is kept
KeptByFilter(inst, target_date, cfg) ==
    /\ ~inst.meta.all_day =>
          /\ DateOf(inst.start) = target_date
          /\ ~(HourOf(inst.start) < cfg.EXCLUDE_BEFORE)
          /\ ~(HourOf(inst.start) >= cfg.END_HOUR)
    /\ ~(\E w \in 1..Len(cfg.FILTER_BLOCKED_WORDS) :
            IsSubstring(cfg.FILTER_BLOCKED_WORDS[w], Lower(inst.title)))
    /\ ~(\E w \in 1..Len(cfg.FILTER_BLOCKED_WORDS) :
            cfg.FILTER_BLOCKED_WORDS[w] = Lower(StatusOf(inst.meta)))
    /\ ~(inst.end - inst.start < 15)

\* list.sort / sorted with a key: stable, an item goes after every item whose key
\* is <= its own.  keys[k] is the key of items[k].
RECURSIVE StableInsert(_, _, _, _)
StableInsert(items, keys, sorted, sortedKeys) ==
    IF items = <<>> THEN sorted
    ELSE LET k == Cardinality({p \in 1..Len(sorted) :
                                 \A q \in 1..p : sortedKeys[q] <= Head(keys)})
         IN  StableInsert(Tail(items), Tail(keys),
                 SubSeq(sorted, 1, k) \o <<Head(items)>> \o SubSeq(sorted, k + 1, Len(sorted)),
                 SubSeq(sortedKeys, 1, k) \o <<Head(keys)>>
                     \o SubSeq(sortedKeys, k + 1, Len(sortedKeys)))

\* mutant: an item goes before the items of equal start
RECURSIVE SortByStartTiesReversed(_)
SortByStartTiesReversed(kept) ==
    IF kept = <<>> THEN <<>>
    ELSE LET sorted == SortByStartTiesReversed(SubSeq(kept, 1, Len(kept) - 1))
             last   == kept[Len(kept)]
             k      == Cardinality({p \in 1..Len(sorted) :
                                      \A q \in 1..p : sorted[q].start < last.start})
         IN  SubSeq(sorted, 1, k) \o <<last>> \o SubSeq(sorted, k + 1, Len(sorted))

\* line 306: sorted(kept, key=lambda x: x[0])
SortByStart(kept) ==
    StableInsert(kept, [k \in 1..Len(kept) |-> kept[k].start], <<>>, <<>>)

SortByEnd(kept) ==
    StableInsert(kept, [k \in 1..Len(kept) |-> kept[k].end], <<>>, <<>>)

filter_events_for_day(evs, target_date, cfg) ==
    SortByStart(SelectSeq(evs, LAMBDA e : KeptByFilter(e, target_date, cfg)))

(***************************************************************************)
(* main, lines 99-108: the instances of one raw event pass the UID check   *)
(* one by one.  The value is [instances, seen].                            *)
(***************************************************************************)
\* mutant: the UID of an accepted instance is not remembered
RECURSIVE DedupeForgetful(_, _, _)
DedupeForgetful(emitted, insts, uids) ==
    IF emitted = <<>> THEN [instances |-> insts, seen |-> uids]
    ELSE LET e == Head(emitted)
         IN  IF e.meta.uid \in uids
             THEN DedupeForgetful(Tail(emitted), insts, uids)
             ELSE DedupeForgetful(Tail(emitted), Append(insts, e), uids)

RECURSIVE Dedupe(_, _, _)
Dedupe(emitted, insts, uids) ==
    IF emitted = <<>> THEN [instances |-> insts, seen |-> uids]
    ELSE LET e == Head(emitted)
         IN  IF e.meta.uid \in uids
             THEN Dedupe(Tail(emitted), insts, uids)
             ELSE Dedupe(Tail(emitted), Append(insts, e), uids \cup {e.meta.uid})

(***************************************************************************)
(* compute_events_hash (lines 308-322).  Byte strings are sequences of     *)
(* integers.  A component is serialised property by property, each as a    *)
(* tag, the length of its value and the value; a SHA-256 digest is         *)
(* identified by the bytes it was computed from (no collisions) and its    *)
(* hex string is ordered by a number mixed from those bytes.               *)
(***************************************************************************)
VolatileProps == {"dtstamp", "created", "last_modified", "sequence"}

\* mutant: LAST-MODIFIED is not removed
StripVolatileKeepsLastModified(comp) ==
    [p \in DOMAIN comp \ (VolatileProps \ {"last_modified"}) |-> comp[p]]

\* lines 312-314: a copy of the component without the volatile properties
StripVolatile(comp) ==
    [p \in DOMAIN comp \ VolatileProps |-> comp[p]]

KindCode(k) == CASE k = "none" -> 0 [] k = "date" -> 1 [] k = "aware" -> 2 [] OTHER -> 3
TzidCode(z) == CASE z = "" -> 0 [] z = "Zone" -> 1 [] OTHER -> 2

DtBytes(dt) == <<KindCode(dt.kind), dt.v, TzidCode(dt.tzid)>>

ContentLine(tag, value) == <<tag, Len(value)>> \o value

RECURSIVE Flatten(_)
Flatten(parts) == IF parts = <<>> THEN <<>> ELSE Head(parts) \o Flatten(Tail(parts))

\* Component.to_ical: BEGIN, the properties present in canonical order, END
to_ical(c) ==
    LET Has(p)  == p \in DOMAIN c
        exdates == Ascending({(x.v * 4 + KindCode(x.kind)) * 3 + TzidCode(x.tzid) :
                                 x \in c.exdate})
    IN  Flatten(<<
            <<200>>,
            ContentLine(201, c.summary),
            ContentLine(202, DtBytes(c.dtstart)),
            IF c.dtend.kind # "none" THEN ContentLine(203, DtBytes(c.dtend)) ELSE <<>>,
            IF c.duration.has THEN ContentLine(204, <<c.duration.v>>) ELSE <<>>,
            IF Has("dtstamp") THEN ContentLine(205, <<c.dtstamp>>) ELSE <<>>,
            ContentLine(206, <<c.uid>>),
            IF c.recurrence_id.kind # "none"
            THEN ContentLine(207, DtBytes(c.recurrence_id)) ELSE <<>>,
            IF Has("sequence") THEN ContentLine(208, <<c.sequence>>) ELSE <<>>,
            IF c.rrule.has
            THEN ContentLine(209, <<c.rrule.interval>> \o DtBytes(c.rrule.until)) ELSE <<>>,
            IF c.exdate # {} THEN ContentLine(210, exdates) ELSE <<>>,
            IF Has("created") THEN ContentLine(211, <<c.created>>) ELSE <<>>,
            IF Has("last_modified") THEN ContentLine(212, <<c.last_modified>>) ELSE <<>>,
            <<299>> >>)

\* hashlib.sha256(bytes): the digest, identified by the bytes it was computed from
sha256(bytes) == [of |-> bytes]

\* a number mixed from the bytes at positions lo..hi
RECURSIVE MixRange(_, _, _)
MixRange(bytes, lo, hi) ==
    IF lo > hi THEN 0
    ELSE IF lo = hi THEN (bytes[lo] + 1) * (lo * lo + 7 * lo + 11)
    ELSE LET mid == (lo + hi) \div 2
         IN  MixRange(bytes, lo, mid) + MixRange(bytes, mid + 1, hi)

\* .hexdigest(): where the digest's hex string stands in string order
hexdigest(digest) == MixRange(digest.of, 1, Len(digest.of)) % 65521

\* str < str
RECURSIVE LexLess(_, _)
LexLess(a, b) ==
    IF b = <<>> THEN FALSE
    ELSE IF a = <<>> THEN TRUE
    ELSE IF Head(a) # Head(b) THEN Head(a) < Head(b)
    ELSE LexLess(Tail(a), Tail(b))

\* mutant: the items are ordered by calendar name alone
ItemKeyLessNameOnly(x, y) == LexLess(x.name, y.name)

\* line 317: the sort key (name, sha256(data).hexdigest())
ItemKeyLess(x, y) ==
    \/ LexLess(x.name, y.name)
    \/ x.name = y.name /\ hexdigest(sha256(x.data)) < hexdigest(sha256(y.data))

\* line 317: list.sort is stable
RECURSIVE SortItems(_, _)
SortItems(items, sorted) ==
    IF items = <<>> THEN sorted
    ELSE LET x == Head(items)
             p == Cardinality({k \in 1..Len(sorted) : ~ItemKeyLess(x, sorted[k])})
         IN  SortItems(Tail(items),
                       SubSeq(sorted, 1, p) \o <<x>> \o SubSeq(sorted, p + 1, Len(sorted)))

compute_events_hash(raws) ==
    LET items  == [k \in 1..Len(raws) |->
                      [name |-> raws[k].name, data |-> to_ical(StripVolatile(raws[k].comp))]]
        sorted == SortItems(items, <<>>)
    IN  sha256(Flatten([k \in 1..Len(sorted) |-> sorted[k].name \o sorted[k].data]))

(***************************************************************************)
(* Specification of the layout engine: any list of instances with          *)
(* end >= start is laid out.  Titles number the instances.                 *)
(***************************************************************************)
DefaultSettings ==
    [START_HOUR |-> 6, END_HOUR |-> 18, EXCLUDE_BEFORE |-> 0,
     CONVERT_OFFGRID_TO_ALLDAY |-> TRUE, FILTER_BLOCKED_WORDS |-> <<>>,
     TZ_LOCAL |-> 0, FORCE_REFRESH |-> FALSE]

IdleStacks == events = <<>> /\ result = <<>>

NoRecord == [has |-> FALSE, last_anchor |-> <<>>, events_hash |-> <<>>]
NoChange == [kind |-> "none", hash_before |-> <<>>]
NoConfig == [calendars |-> <<>>]

IdleLoad == sources = <<>> /\ src_i = 1 /\ all_events = <<>> /\ http_results = <<>>

IdleRun ==
    /\ date_list = <<>> /\ persisted = NoRecord /\ meta = NoRecord
    /\ anchor = <<>> /\ new_hash = <<>> /\ runs = 0 /\ change = NoChange /\ config = NoConfig
    /\ IdleLoad
    /\ first_pass = <<>>

IdleDay ==
    /\ raw_events = <<>> /\ override_map = <<>> /\ d = 0 /\ raw_i = 1
    /\ instances = <<>> /\ seen = {} /\ all_day = <<>> /\ timed = <<>> /\ final = <<>>
    /\ rendered = <<>>

StackIntervals == {iv \in (0..MaxTick) \X (0..MaxTick) : iv[1] <= iv[2]}

StackInputs ==
    {[k \in 1..Len(s) |-> [start |-> s[k][1], end |-> s[k][2], title |-> k,
                            meta |-> [all_day |-> FALSE]]] :
        s \in SeqsUpTo(StackIntervals, MaxEvents)}

InitStacks ==
    /\ pc = "assign_stacks"
    /\ events \in StackInputs
    /\ result = <<>>
    /\ settings = DefaultSettings
    /\ IdleDay
    /\ IdleRun

AssignStacks ==
    /\ pc = "assign_stacks"
    /\ result' = assign_stacks(events)
    /\ pc' = "stacked"
    /\ UNCHANGED <<events, settings, dayVars, runVars>>

NextStacks == AssignStacks

SpecStacks == InitStacks /\ [][NextStacks]_vars

(***************************************************************************)
(* Components the expander is applied to.  Day 0 is the first day of the   *)
(* calendar; clock times are minutes after midnight.                       *)
(***************************************************************************)
NoDuration  == [has |-> FALSE, v |-> 0]
Duration(m) == [has |-> TRUE, v |-> m]
NoRule      == [has |-> FALSE, interval |-> MinutesPerDay, until |-> NoDt]
Rule(n, u)  == [has |-> TRUE, interval |-> n, until |-> u]

Comp(uid, summary, dtstart, dtend, duration, rrule, exdate, recurrence_id) ==
    [uid |-> uid, summary |-> summary, dtstart |-> dtstart, dtend |-> dtend,
     duration |-> duration, rrule |-> rrule, exdate |-> exdate,
     recurrence_id |-> recurrence_id,
     dtstamp |-> 0, created |-> 0, last_modified |-> 0, sequence |-> 0]

NoTzf   == [has |-> FALSE, tzid |-> "", offset |-> 0]
ZoneTzf == [has |-> TRUE, tzid |-> "Zone", offset |-> -300]

Raw(comp, tzf) == [comp |-> comp, color |-> "blue", tzf |-> tzf, name |-> <<1>>]

ClockTimes == {0, 300, 600, 1320}          \* 00:00, 05:00, 10:00, 22:00

Rules ==
    {NoRule} \cup
    {Rule(n, u) : n \in {MinutesPerDay \div 2, MinutesPerDay},
                  u \in {NoDt, DateV(1), Aware(MinutesPerDay + 600)}}

\* date-only components: DTEND a date, or a DURATION, or neither
DateOnlyComps ==
    {Comp(1, <<1>>, DateV(s), e[1], e[2], r, {}, NoDt) :
        s \in {0, 1},
        e \in {<<NoDt, NoDuration>>, <<DateV(0), NoDuration>>, <<DateV(1), NoDuration>>,
               <<DateV(2), NoDuration>>, <<DateV(3), NoDuration>>,
               <<NoDt, Duration(MinutesPerDay)>>, <<NoDt, Duration(2160)>>,
               <<NoDt, Duration(2 * MinutesPerDay)>>},
        r \in {NoRule, Rule(MinutesPerDay, NoDt)}}

\* a timed component with a zoned DTSTART at clock time t of day 0; its DTEND
\* is e minutes after the start (0: no DTEND); x selects its EXDATE
ZonedComp(t, e, dur, r, x) ==
    Comp(1, <<1>>, Aware(t), IF e = 0 THEN NoDt ELSE Aware(t + e), dur, r,
         IF ~r.has \/ x = "none" THEN {}
         ELSE IF x = "aware" THEN {Aware(MinutesPerDay + t)}
         ELSE IF x = "naive" THEN {Naive(MinutesPerDay + t, "")}
         ELSE {DateV(1)},
         NoDt)

ZonedComps ==
    {ZonedComp(t, e[1], e[2], r, x) :
        t \in ClockTimes,
        e \in {<<0, NoDuration>>, <<0, Duration(10)>>, <<0, Duration(60)>>,
               <<0, Duration(MinutesPerDay)>>, <<-60, NoDuration>>, <<120, NoDuration>>},
        r \in Rules,
        x \in {"none", "aware", "naive", "date"}}

\* a timed component with a naive DTSTART 10:00 and TZID z
NaiveComp(z, e, dur, r) ==
    Comp(1, <<1>>, Naive(600, z), IF e = 0 THEN NoDt ELSE Naive(600 + e, z), dur, r, {}, NoDt)

NaiveComps ==
    {NaiveComp(z, e[1], e[2], r) :
        z \in {"", "Zone", "Other"},
        e \in {<<0, NoDuration>>, <<0, Duration(60)>>, <<60, NoDuration>>},
        r \in {NoRule, Rule(MinutesPerDay, NoDt)}}

ExpandInputs ==
    {Raw(c, NoTzf) : c \in DateOnlyComps}
    \cup {Raw(c, NoTzf) : c \in ZonedComps}
    \cup {Raw(c, f) : c \in NaiveComps, f \in {NoTzf, ZoneTzf}}

\* override indexes: day-1 occurrences overridden for UID 1, for another UID,
\* or given as values that are not zoned datetimes
OverrideMaps ==
    {<<>>,
     [u \in {1} |-> {Aware(MinutesPerDay + t) : t \in ClockTimes}],
     [u \in {2} |-> {Aware(MinutesPerDay + t) : t \in ClockTimes}],
     [u \in {1} |-> {Naive(MinutesPerDay + t, "") : t \in ClockTimes} \cup {DateV(1)}]}

ExpandSettings ==
    {[DefaultSettings EXCEPT !.CONVERT_OFFGRID_TO_ALLDAY = c, !.TZ_LOCAL = z] :
        c \in BOOLEAN, z \in {0, 60}}

InitExpand ==
    /\ pc = "expand_event_for_day"
    /\ settings \in ExpandSettings
    /\ raw_events \in {<<r>> : r \in ExpandInputs}
    /\ override_map \in OverrideMaps
    /\ d \in 0..MaxDate
    /\ final = <<>>
    /\ raw_i = 1 /\ instances = <<>> /\ seen = {} /\ all_day = <<>> /\ timed = <<>>
    /\ rendered = <<>>
    /\ IdleStacks
    /\ IdleRun

\* one call of expand_event_for_day; instances is the function's local list
\* (line 138) as the final loop of lines 248-265 reads it
Expand ==
    /\ pc = "expand_event_for_day"
    /\ LET re == raw_events[1]
           r  == expand_event_for_day(re.comp, re.color, re.tzf, d, settings, override_map)
       IN  /\ final' = r.final
           /\ instances' = r.instances
           /\ raw_events' = <<[re EXCEPT !.comp = r.comp]>>
           /\ pc' = IF r.raised THEN "raised" ELSE "returned"
    /\ UNCHANGED <<settings, stackVars, override_map, d, raw_i, seen,
                   all_day, timed, rendered, runVars>>

NextExpand == Expand

SpecExpand == InitExpand /\ [][NextExpand]_vars

(***************************************************************************)
(* main, lines 96-178: one date of the per-day loop.                       *)
(***************************************************************************)
\* mutant: the pre-grid bucket is sorted by start
OrderAllDayPreByStart(evs, target_date, cfg) ==
    LET sod        == StartOfDay(target_date)
        sod_next   == sod + MinutesPerDay
        grid_start == sod + cfg.START_HOUR * MinutesPerHour
        grid_end   == sod + cfg.END_HOUR * MinutesPerHour
        IsPre(e)   == e.end <= grid_start
        IsPost(e)  == ~IsPre(e) /\ e.start >= grid_end
        IsTrue(e)  == ~IsPre(e) /\ ~IsPost(e) /\ e.start = sod /\ e.end = sod_next
        IsOther(e) == ~IsPre(e) /\ ~IsPost(e) /\ ~IsTrue(e)
    IN  SortByStart(SelectSeq(evs, IsPre))
        \o SortByStart(SelectSeq(evs, IsTrue))
        \o SortByStart(SelectSeq(evs, IsOther))
        \o SortByStart(SelectSeq(evs, IsPost))

\* lines 122-139: the all-day instances in the order pre, true, other, post
OrderAllDay(evs, target_date, cfg) ==
    LET sod        == StartOfDay(target_date)
        sod_next   == sod + MinutesPerDay
        grid_start == sod + cfg.START_HOUR * MinutesPerHour
        grid_end   == sod + cfg.END_HOUR * MinutesPerHour
        IsPre(e)   == e.end <= grid_start
        IsPost(e)  == ~IsPre(e) /\ e.start >= grid_end
        IsTrue(e)  == ~IsPre(e) /\ ~IsPost(e) /\ e.start = sod /\ e.end = sod_next
        IsOther(e) == ~IsPre(e) /\ ~IsPost(e) /\ ~IsTrue(e)
    IN  SortByEnd(SelectSeq(evs, IsPre))
        \o SortByStart(SelectSeq(evs, IsTrue))
        \o SortByStart(SelectSeq(evs, IsOther))
        \o SortByStart(SelectSeq(evs, IsPost))

\* renderers.py 566-570: the timed events as drawn, by (layer_index, start)
DrawOrder(layered) ==
    LET byStart == StableInsert(layered, [k \in 1..Len(layered) |-> layered[k].start],
                                <<>>, <<>>)
    IN  StableInsert(byStart, [k \in 1..Len(byStart) |-> byStart[k].layer_index], <<>>, <<>>)

\* lines 101-108: one raw event is expanded and its instances pass the UID check
ExpandRawEvent ==
    /\ pc = "expand"
    /\ raw_i <= Len(raw_events)
    /\ LET re == raw_events[raw_i]
           r  == expand_event_for_day(re.comp, re.color, re.tzf, d, settings, override_map)
           dd == Dedupe(r.final, instances, seen)
       IN  /\ raw_events' = [raw_events EXCEPT ![raw_i].comp = r.comp]
           /\ final' = r.final
           /\ IF r.raised
              THEN pc' = "raised" /\ UNCHANGED <<instances, seen, raw_i>>
              ELSE /\ instances' = dd.instances
                   /\ seen' = dd.seen
                   /\ raw_i' = raw_i + 1
                   /\ pc' = "expand"
    /\ UNCHANGED <<settings, stackVars, override_map, d, all_day, timed, rendered, runVars>>

\* lines 99-108 once more for the same date: the instances of the first pass
\* are kept aside and the loop over raw_events, whose components the first
\* pass has left as line 200 rewrote them, starts again
RepeatExpansion ==
    /\ pc = "expand"
    /\ raw_i > Len(raw_events)
    /\ first_pass = <<>>
    /\ first_pass' = <<instances>>
    /\ raw_i' = 1 /\ instances' = <<>> /\ seen' = {}
    /\ UNCHANGED <<pc, settings, stackVars, raw_events, override_map, d, all_day, timed,
                   final, rendered, date_list, persisted, meta, anchor, new_hash, runs,
                   change, config, loadVars>>

\* lines 111-113: split, then filter each list
SplitAndFilter ==
    /\ pc = "expand"
    /\ raw_i > Len(raw_events)
    /\ LET sp == split_all_day_events(instances, d)
       IN  /\ all_day' = filter_events_for_day(sp.all_day, d, settings)
           /\ timed' = filter_events_for_day(sp.timed, d, settings)
    /\ pc' = "filtered"
    /\ UNCHANGED <<settings, stackVars, raw_events, override_map, d, raw_i, instances,
                   seen, final, rendered, runVars>>

\* lines 115-139: the all-day instances are put in presentation order
SortAllDay ==
    /\ pc = "filtered"
    /\ all_day' = OrderAllDay(all_day, d, settings)
    /\ pc' = "sorted"
    /\ UNCHANGED <<settings, stackVars, raw_events, override_map, d, raw_i, instances,
                   seen, timed, final, rendered, runVars>>

\* lines 141-178: the date's page is drawn; render_schedule_pdf lays the timed
\* instances out with assign_stacks
RenderDay ==
    /\ pc = "sorted"
    /\ events' = timed
    /\ result' = assign_stacks(timed)
    /\ rendered' = Append(rendered, [date |-> d, all_day |-> all_day,
                                     timed |-> DrawOrder(assign_stacks(timed))])
    /\ pc' = "rendered"
    /\ UNCHANGED <<settings, raw_events, override_map, d, raw_i, instances, seen,
                   all_day, timed, final, runVars>>

(***************************************************************************)
(* Raw events of the per-day specification: recurring series, overrides of *)
(* their occurrences, one-off events and a date-only event, in the order   *)
(* load_raw_events returns them (sorted by DTSTART, calendar_loader.py     *)
(* 159-162).                                                               *)
(***************************************************************************)
\* _dtstart_value (calendar_loader.py 79-92)
dtstart_value(comp) ==
    IF comp.dtstart.kind = "date" THEN comp.dtstart.v * MinutesPerDay ELSE comp.dtstart.v

DayComps ==
    {\* daily at 10:00 from day 0, one hour
     Comp(1, <<1>>, Aware(600), NoDt, Duration(60), Rule(MinutesPerDay, NoDt), {}, NoDt),
     \* twice a day, 10:00 and 22:00, from day 0
     Comp(1, <<1>>, Aware(600), NoDt, Duration(60), Rule(MinutesPerDay \div 2, NoDt), {}, NoDt),
     \* override of the day-1 occurrence, moved to 14:00 of day 1
     Comp(1, <<2>>, Aware(MinutesPerDay + 840), NoDt, Duration(60), NoRule, {},
          Aware(MinutesPerDay + 600)),
     \* override of the day-0 occurrence, moved to 14:00 of day 1
     Comp(1, <<2>>, Aware(MinutesPerDay + 840), NoDt, Duration(60), NoRule, {}, Aware(600)),
     \* override of the day-0 occurrence, moved to 08:00 of day 0
     Comp(1, <<2>>, Aware(480), NoDt, Duration(60), NoRule, {}, Aware(600)),
     \* one-off events of day 1: 05:00 for 10 minutes, 10:00 for 14 and for 15 minutes
     Comp(2, <<3>>, Aware(MinutesPerDay + 300), NoDt, Duration(10), NoRule, {}, NoDt),
     Comp(2, <<4>>, Aware(MinutesPerDay + 600), NoDt, Duration(14), NoRule, {}, NoDt),
     Comp(3, <<5>>, Aware(MinutesPerDay + 600), NoDt, Duration(15), NoRule, {}, NoDt),
     \* 23:00 of day 0 to 01:00 of day 1
     Comp(3, <<6>>, Aware(1380), Aware(MinutesPerDay + 60), NoDuration, NoRule, {}, NoDt),
     \* a date-only event on day 1
     Comp(4, <<7>>, DateV(1), DateV(2), NoDuration, NoRule, {}, NoDt),
     \* daily at 09:00 from day 0, UNTIL the date of day 1
     Comp(5, <<8>>, Aware(540), NoDt, Duration(60), Rule(MinutesPerDay, DateV(1)), {}, NoDt),
     \* daily at 11:00 from day 0, DTSTART a floating time
     Comp(6, <<9>>, Naive(660, ""), NoDt, Duration(60), Rule(MinutesPerDay, NoDt), {}, NoDt)}

SortedByDtstart(raws) ==
    \A k \in 1..(Len(raws) - 1) : dtstart_value(raws[k].comp) <= dtstart_value(raws[k + 1].comp)

DayInputs ==
    {raws \in SeqsUpTo({Raw(c, NoTzf) : c \in DayComps}, MaxRaw) : SortedByDtstart(raws)}

DaySettings ==
    {[DefaultSettings EXCEPT !.CONVERT_OFFGRID_TO_ALLDAY = c] : c \in BOOLEAN}

InitDay ==
    /\ pc = "expand"
    /\ settings \in DaySettings
    /\ raw_events \in DayInputs
    /\ override_map = build_override_map(raw_events)
    /\ d \in 0..MaxDate
    /\ raw_i = 1 /\ instances = <<>> /\ seen = {} /\ all_day = <<>> /\ timed = <<>>
    /\ final = <<>> /\ rendered = <<>>
    /\ IdleStacks
    /\ IdleRun

NextDay == ExpandRawEvent \/ RepeatExpansion \/ SplitAndFilter \/ SortAllDay \/ RenderDay

SpecDay == InitDay /\ [][NextDay]_vars

(***************************************************************************)
(* Specification of the classification steps of one date (ephemeris.py     *)
(* 111-139) as functions of any instance list: split_all_day_events, then  *)
(* filter_events_for_day on each list, then the ordering of the all-day    *)
(* list.  The date is day 1; the grid is 06:00-18:00.                      *)
(***************************************************************************)
MaxInst == 2

Inst(uid, title, start, end, is_all_day) ==
    [start |-> start, end |-> end, title |-> title,
     meta  |-> [uid |-> uid, calendar_color |-> "blue", all_day |-> is_all_day,
                time_label |-> <<>>]]

\* an instance whose metadata carries a status
InstWithStatus(uid, title, start, end, status) ==
    [start |-> start, end |-> end, title |-> title,
     meta  |-> [uid |-> uid, calendar_color |-> "blue", all_day |-> FALSE,
                time_label |-> <<>>, status |-> status]]

InstancePool ==
    LET day == MinutesPerDay
    IN  {\* 10:00-11:00 and 10:00-11:30 of day 1
         Inst(1, <<1>>, day + 600, day + 660, FALSE),
         Inst(2, <<3>>, day + 600, day + 690, FALSE),
         \* 08:00-09:00, the title in upper case and lower case
         Inst(3, <<103, 2>>, day + 480, day + 540, FALSE),
         \* 09:00-09:14
         Inst(4, <<3>>, day + 540, day + 554, FALSE),
         \* 05:00-07:00 and 18:00-19:00
         Inst(5, <<3>>, day + 300, day + 420, FALSE),
         Inst(6, <<3>>, day + 1080, day + 1140, FALSE),
         \* 23:00 of day 0 to 01:00 of day 1
         Inst(7, <<3>>, day - 60, day + 60, FALSE),
         \* 00:00 of day 1 to 06:00 of day 2, and 00:00 to 24:00 of day 1, not marked
         Inst(8, <<3>>, day, 2 * day + 360, FALSE),
         Inst(9, <<3>>, day, 2 * day, FALSE),
         \* 12:00-13:00 with status, in upper case
         InstWithStatus(10, <<3>>, day + 720, day + 780, <<105>>),
         \* marked all-day: the whole day, twice
         Inst(11, <<3>>, day, 2 * day, TRUE),
         Inst(12, <<1>>, day, 2 * day, TRUE),
         \* marked all-day before the grid: 01:00-02:00 and 00:00-04:00
         Inst(13, <<3>>, day + 60, day + 120, TRUE),
         Inst(14, <<3>>, day, day + 240, TRUE),
         \* marked all-day after the grid: 19:00-20:00
         Inst(15, <<3>>, day + 1140, day + 1200, TRUE),
         \* marked all-day inside the grid: 05:00-07:00
         Inst(16, <<3>>, day + 300, day + 420, TRUE)}

ClassifySettings ==
    {[DefaultSettings EXCEPT !.EXCLUDE_BEFORE = x, !.FILTER_BLOCKED_WORDS = w] :
        x \in {0, 6}, w \in {<<>>, <<<<1>>>>, <<<<5>>, <<2>>>>}}

InitClassify ==
    /\ pc = "split"
    /\ settings \in ClassifySettings
    /\ instances \in SeqsUpTo(InstancePool, MaxInst)
    /\ d = 1
    /\ raw_events = <<>> /\ override_map = <<>> /\ raw_i = 1 /\ seen = {}
    /\ all_day = <<>> /\ timed = <<>> /\ final = <<>> /\ rendered = <<>>
    /\ IdleStacks
    /\ IdleRun

\* line 111: all_day, rest = split_all_day_events(instances, d, tz_local)
Split ==
    /\ pc = "split"
    /\ all_day' = split_all_day_events(instances, d).all_day
    /\ timed' = split_all_day_events(instances, d).timed
    /\ pc' = "classified"
    /\ UNCHANGED <<settings, stackVars, raw_events, override_map, d, raw_i, instances,
                   seen, final, rendered, runVars>>

\* lines 112-113: each list is filtered
Filter ==
    /\ pc = "classified"
    /\ all_day' = filter_events_for_day(all_day, d, settings)
    /\ timed' = filter_events_for_day(timed, d, settings)
    /\ pc' = "filtered"
    /\ UNCHANGED <<settings, stackVars, raw_events, override_map, d, raw_i, instances,
                   seen, final, rendered, runVars>>

NextClassify == Split \/ Filter \/ SortAllDay

SpecClassify == InitClassify /\ [][NextClassify]_vars

(***************************************************************************)
(* Specification of the change-detection digest: the digest of a list of   *)
(* raw events is computed, the calendars change in one way (their events   *)
(* arrive in another order, a volatile property of one event is rewritten, *)
(* or one event is retitled), and the digest is computed again.            *)
(***************************************************************************)
MaxHashEvents == 3

HashComps ==
    {[Comp(1, t, Aware(600), NoDt, Duration(60), NoRule, {}, NoDt) EXCEPT !.last_modified = m] :
        t \in {<<1>>, <<2>>}, m \in {0, 1}}

HashInputs ==
    SeqsUpTo({[Raw(c, NoTzf) EXCEPT !.name = n] : c \in HashComps, n \in {<<1>>, <<1, 2>>}},
             MaxHashEvents)

InitHash ==
    /\ pc = "compute_events_hash"
    /\ settings = DefaultSettings
    /\ raw_events \in HashInputs
    /\ override_map = <<>> /\ d = 0
    /\ raw_i = 1 /\ instances = <<>> /\ seen = {} /\ all_day = <<>> /\ timed = <<>>
    /\ final = <<>> /\ rendered = <<>>
    /\ IdleStacks
    /\ IdleRun

hashFrame == <<settings, stackVars, override_map, d, raw_i, instances, seen, all_day, timed,
               final, rendered, date_list, persisted, meta, anchor, runs, config, loadVars, first_pass>>

\* one call of compute_events_hash
ComputeHash ==
    /\ pc = "compute_events_hash"
    /\ new_hash' = compute_events_hash(raw_events)
    /\ pc' = "hashed"
    /\ UNCHANGED <<raw_events, change, hashFrame>>

Changed(kind) ==
    /\ pc = "hashed"
    /\ change.kind = "none"
    /\ change' = [kind |-> kind, hash_before |-> new_hash]
    /\ pc' = "compute_events_hash"
    /\ UNCHANGED <<new_hash, hashFrame>>

\* the sources deliver the same events in another order
Reorder ==
    /\ Changed("reorder")
    /\ \E f \in [1..Len(raw_events) -> 1..Len(raw_events)] :
            /\ \A a, b \in 1..Len(raw_events) : a # b => f[a] # f[b]
            /\ raw_events' = [k \in 1..Len(raw_events) |-> raw_events[f[k]]]
            /\ raw_events' # raw_events

\* DTSTAMP, CREATED, LAST-MODIFIED or SEQUENCE of one event is rewritten
TouchVolatile ==
    /\ Changed("volatile")
    /\ \E k \in 1..Len(raw_events) : \E p \in VolatileProps : \E v \in {0, 1} :
            /\ raw_events[k].comp[p] # v
            /\ raw_events' = [raw_events EXCEPT ![k].comp[p] = v]

\* one event gets another title
Retitle ==
    /\ Changed("title")
    /\ \E k \in 1..Len(raw_events) : \E t \in {<<1>>, <<2>>} :
            /\ raw_events[k].comp.summary # t
            /\ raw_events' = [raw_events EXCEPT ![k].comp.summary = t]

NextHash == ComputeHash \/ Reorder \/ TouchVolatile \/ Retitle

SpecHash == InitHash /\ [][NextHash]_vars

(***************************************************************************)
(* Specification of the application: runs of main (ephemeris.py 29-245),   *)
(* one after another, over the configured calendars, the date range, the   *)
(* force-refresh flag and the record a previous run left.                  *)
(*                                                                         *)
(* load_raw_events is a coroutine function (calendar_loader.py 94) and     *)
(* main calls it without awaiting it (line 59), so raw_events is the       *)
(* coroutine object, not the list of raw events; compute_events_hash       *)
(* iterates its argument (event_processing.py 311), which raises TypeError *)
(* for a coroutine, and main has no handler: the run ends at line 63.      *)
(***************************************************************************)
MaxRuns == 2

\* the object a call of the coroutine function load_raw_events returns
Coroutine(srcs) == [coroutine |-> "load_raw_events", sources |-> srcs]

IsCoroutine(x) == DOMAIN x = {"coroutine", "sources"}

\* line 62: f"{date_list[0].isoformat()}:{date_list[-1].isoformat()}"
Anchor(dates) == <<dates[1], dates[Len(dates)]>>

Record(last_anchor, events_hash) ==
    [has |-> TRUE, last_anchor |-> last_anchor, events_hash |-> events_hash]

\* meta.get("_last_anchor"), meta.get("events_hash"): None without a record
MetaGet(m, key) == IF m.has THEN m[key] ELSE <<>>

DateLists == {<<0>>, <<1>>, <<0, 1>>}

Calendars ==
    {<<>>,
     <<Raw(Comp(1, <<1>>, Aware(600), NoDt, Duration(60), Rule(MinutesPerDay, NoDt), {}, NoDt),
           NoTzf)>>,
     <<Raw(Comp(1, <<2>>, Aware(600), NoDt, Duration(60), Rule(MinutesPerDay, NoDt), {}, NoDt),
           NoTzf)>>}

\* the records a run can find: none, or the anchor and digest of some date
\* range and calendars
Records ==
    {NoRecord} \cup {Record(Anchor(dl), compute_events_hash(c)) : dl \in DateLists, c \in Calendars}

RunSettings == {[DefaultSettings EXCEPT !.FORCE_REFRESH = f] : f \in BOOLEAN}

StartOfRun ==
    /\ pc = "main"
    /\ meta = NoRecord /\ raw_events = <<>> /\ anchor = <<>> /\ new_hash = <<>>
    /\ override_map = <<>> /\ d = 0
    /\ raw_i = 1 /\ instances = <<>> /\ seen = {} /\ all_day = <<>> /\ timed = <<>>
    /\ final = <<>> /\ rendered = <<>>
    /\ IdleStacks
    /\ IdleLoad
    /\ first_pass = <<>>
    /\ change = NoChange

Init ==
    /\ StartOfRun
    /\ settings \in RunSettings
    /\ date_list \in DateLists
    /\ config \in {[calendars |-> c] : c \in Calendars}
    /\ persisted \in Records
    /\ runs = 1

runFrame == <<stackVars, override_map, d, raw_i, instances, seen, all_day, timed, final,
              rendered, change, loadVars, first_pass>>

\* lines 56-59: the record is read; load_raw_events is called and not awaited
LoadInputs ==
    /\ pc = "main"
    /\ meta' = persisted
    /\ raw_events' = Coroutine(config.calendars)
    /\ pc' = "detect"
    /\ UNCHANGED <<settings, date_list, config, persisted, anchor, new_hash, runs, runFrame>>

\* lines 61-65: the anchor is built; compute_events_hash raises on a coroutine
DetectChanges ==
    /\ pc = "detect"
    /\ anchor' = Anchor(date_list)
    /\ IF IsCoroutine(raw_events)
       THEN pc' = "raised" /\ new_hash' = new_hash
       ELSE pc' = "decide" /\ new_hash' = compute_events_hash(raw_events)
    /\ UNCHANGED <<settings, date_list, config, persisted, meta, raw_events, runs, runFrame>>

\* the application is started again, on inputs that may have changed
NewRun ==
    /\ pc = "raised"
    /\ runs < MaxRuns
    /\ runs' = runs + 1
    /\ pc' = "main"
    /\ meta' = NoRecord /\ raw_events' = <<>> /\ anchor' = <<>> /\ new_hash' = <<>>
    /\ settings' \in RunSettings
    /\ date_list' \in DateLists
    /\ config' \in {[calendars |-> c] : c \in Calendars}
    /\ UNCHANGED <<persisted, runFrame>>

Next == LoadInputs \/ DetectChanges \/ NewRun

Spec == Init /\ [][Next]_vars

(***************************************************************************)
(* load_raw_events (calendar_loader.py 94-162), as it runs when awaited.   *)
(* A calendar entry is [name, color, kind, files]: a "file" or an "http"   *)
(* entry has one file, a "dir" entry the .ics files of the directory.  A   *)
(* file is [fails, tzf, comps]: whether fetching or parsing it raises,     *)
(* its timezone resolver and its VEVENT components.                        *)
(***************************************************************************)
MaxSources == 2

\* lines 108-113: an entry whose source starts with "http" is fetched over the network
IsHttp(entry) == entry.kind = "http"
IsLocal(entry) == ~IsHttp(entry)

\* extract_raw_events (lines 66-77)
extract_raw_events(file, color, name) ==
    [k \in 1..Len(file.comps) |->
        [comp |-> file.comps[k], color |-> color, tzf |-> file.tzf, name |-> name]]

\* lines 116-134: the events of the files of a local entry, up to the first file
\* that raises
RECURSIVE ReadFiles(_, _, _)
ReadFiles(entry, k, acc) ==
    IF k > Len(entry.files) THEN [raised |-> FALSE, events |-> acc]
    ELSE IF entry.files[k].fails THEN [raised |-> TRUE, events |-> acc]
    ELSE ReadFiles(entry, k + 1,
                   acc \o extract_raw_events(entry.files[k], entry.color, entry.name))

\* _fetch_and_process_http_calendar (lines 165-171), as gather records it
Fetched(entry) ==
    IF entry.files[1].fails
    THEN [settled |-> TRUE, failed |-> TRUE, events |-> <<>>]
    ELSE [settled |-> TRUE, failed |-> FALSE,
          events |-> extract_raw_events(entry.files[1], entry.color, entry.name)]

Pending == [settled |-> FALSE, failed |-> FALSE, events |-> <<>>]

\* lines 152-156: the results are appended in the order of the entries, the
\* failed ones skipped
RECURSIVE Gathered(_, _)
Gathered(results, k) ==
    IF k > Len(results) THEN <<>>
    ELSE (IF results[k].failed THEN <<>> ELSE results[k].events) \o Gathered(results, k + 1)

\* lines 159-162: sorted(all_events, key=lambda x: _dtstart_value(x[0]))
SortByDtstart(evs) ==
    StableInsert(evs, [k \in 1..Len(evs) |-> dtstart_value(evs[k].comp)], <<>>, <<>>)

loadFrame == <<settings, stackVars, override_map, d, raw_i, instances, seen, all_day, timed,
               final, rendered, date_list, persisted, meta, anchor, new_hash, runs, change,
               config, first_pass>>

\* lines 116-134: one local entry is read; a file that cannot be read or parsed
\* raises out of load_raw_events
LoadLocalSource ==
    /\ pc = "load_raw_events"
    /\ LET local == SelectSeq(sources, IsLocal)
       IN  /\ src_i <= Len(local)
           /\ LET r == ReadFiles(local[src_i], 1, <<>>)
              IN  /\ all_events' = all_events \o r.events
                  /\ IF r.raised
                     THEN pc' = "raised" /\ src_i' = src_i
                     ELSE pc' = "load_raw_events" /\ src_i' = src_i + 1
    /\ UNCHANGED <<sources, http_results, raw_events, loadFrame>>

\* lines 137-146: one fetch task per network entry
QueueFetches ==
    /\ pc = "load_raw_events"
    /\ src_i > Len(SelectSeq(sources, IsLocal))
    /\ SelectSeq(sources, IsHttp) # <<>>
    /\ http_results' = [k \in 1..Len(SelectSeq(sources, IsHttp)) |-> Pending]
    /\ pc' = "gather"
    /\ UNCHANGED <<sources, src_i, all_events, raw_events, loadFrame>>

\* mutant: the events of a fetch are appended to all_events when it ends
FetchSettlesMerging ==
    /\ pc = "gather"
    /\ \E k \in 1..Len(http_results) :
          /\ ~http_results[k].settled
          /\ LET r == Fetched(SelectSeq(sources, IsHttp)[k])
             IN  /\ all_events' = all_events \o r.events
                 /\ http_results' = [http_results EXCEPT ![k] = [r EXCEPT !.events = <<>>]]
    /\ UNCHANGED <<pc, sources, src_i, raw_events, loadFrame>>

\* one fetch task ends, with its events or with an exception
FetchSettles ==
    /\ pc = "gather"
    /\ \E k \in 1..Len(http_results) :
          /\ ~http_results[k].settled
          /\ http_results' = [http_results EXCEPT ![k] = Fetched(SelectSeq(sources, IsHttp)[k])]
    /\ UNCHANGED <<pc, sources, src_i, all_events, raw_events, loadFrame>>

\* lines 149-162: when every fetch has settled the results are appended and the
\* sorted list is returned
ReturnRawEvents ==
    /\ \/ /\ pc = "gather"
          /\ \A k \in 1..Len(http_results) : http_results[k].settled
       \/ /\ pc = "load_raw_events"
          /\ src_i > Len(SelectSeq(sources, IsLocal))
          /\ SelectSeq(sources, IsHttp) = <<>>
    /\ all_events' = all_events \o Gathered(http_results, 1)
    /\ raw_events' = SortByDtstart(all_events')
    /\ pc' = "returned"
    /\ UNCHANGED <<sources, src_i, http_results, loadFrame>>

(***************************************************************************)
(* Specification of the loader: any list of up to MaxSources entries.      *)
(***************************************************************************)
OkFile(comps) == [fails |-> FALSE, tzf |-> NoTzf, comps |-> comps]
BadFile == [fails |-> TRUE, tzf |-> NoTzf, comps |-> <<>>]

Entry(name, kind, files) == [name |-> name, color |-> "blue", kind |-> kind, files |-> files]

OneOff(uid, dtstart) == Comp(uid, <<uid>>, dtstart, NoDt, Duration(60), NoRule, {}, NoDt)

SourcePool ==
    {Entry(<<1>>, "file", <<OkFile(<<OneOff(1, Aware(600))>>)>>),
     Entry(<<2>>, "file", <<BadFile>>),
     Entry(<<3>>, "dir",  <<OkFile(<<OneOff(2, Aware(540))>>), BadFile>>),
     Entry(<<4>>, "http", <<OkFile(<<OneOff(3, Aware(600)), OneOff(4, DateV(0))>>)>>),
     Entry(<<5>>, "http", <<BadFile>>),
     Entry(<<6>>, "http", <<OkFile(<<OneOff(5, Aware(600))>>)>>)}

InitLoad ==
    /\ pc = "load_raw_events"
    /\ settings = DefaultSettings
    /\ sources \in SeqsUpTo(SourcePool, MaxSources)
    /\ src_i = 1 /\ all_events = <<>> /\ http_results = <<>>
    /\ IdleDay
    /\ IdleStacks
    /\ date_list = <<>> /\ persisted = NoRecord /\ meta = NoRecord
    /\ anchor = <<>> /\ new_hash = <<>> /\ runs = 0 /\ change = NoChange /\ config = NoConfig
    /\ first_pass = <<>>

NextLoad == LoadLocalSource \/ QueueFetches \/ FetchSettles \/ ReturnRawEvents

SpecLoad == InitLoad /\ [][NextLoad]_vars

(***************************************************************************)
(* Properties of the layout engine.                                        *)
(***************************************************************************)
\* the connected overlap cluster of entry a of a layered list R
RECURSIVE Reach(_, _)
Reach(R, S) ==
    LET nxt == S \cup {j \in 1..Len(R) : \E i \in S : overlaps(R[i], R[j])}
    IN  IF nxt = S THEN S ELSE Reach(R, nxt)

ClusterOf(R, a) == Reach(R, {a})

LayersOpened(R, a) == {R[b].layer_index : b \in ClusterOf(R, a)}

\* C1: in the output of assign_stacks no two events of one connected overlap
\* cluster with the same layer_index have intersecting intervals [start, end).
C1_NoCollision ==
    pc = "stacked" =>
        \A a \in 1..Len(result) : \A b \in ClusterOf(result, a) \ {a} :
            result[a].layer_index = result[b].layer_index
                => ~(result[a].start < result[b].end /\ result[b].start < result[a].end)

\* C1 witness: two events of one cluster share a layer and merely touch
C1_Witness ==
    /\ pc = "stacked"
    /\ \E a \in 1..Len(result) : \E b \in ClusterOf(result, a) \ {a} :
            /\ result[a].layer_index = result[b].layer_index
            /\ result[a].end = result[b].start
            /\ result[a].start < result[a].end
            /\ result[b].start < result[b].end

\* C2: width_frac = (maxDepth - layer_index) / maxDepth with maxDepth the number
\* of layers opened in the event's cluster; 0 < width_frac <= 1; within a
\* cluster width_frac strictly decreases as layer_index increases.
C2_WidthFrac ==
    pc = "stacked" =>
        \A a \in 1..Len(result) :
            LET maxDepth == Cardinality(LayersOpened(result, a))
                wf       == result[a].width_frac
            IN  /\ wf = <<maxDepth - result[a].layer_index, maxDepth>>
                /\ wf[2] > 0 /\ 0 < wf[1] /\ wf[1] <= wf[2]
                /\ \A b \in ClusterOf(result, a) :
                        result[a].layer_index < result[b].layer_index
                            => wf[1] * result[b].width_frac[2]
                                 > result[b].width_frac[1] * wf[2]

\* C2 witness: a cluster three layers deep
C2_Witness ==
    /\ pc = "stacked"
    /\ \E a \in 1..Len(result) :
            /\ result[a].layer_index = 2
            /\ result[a].width_frac = <<1, 3>>

(***************************************************************************)
(* Properties of the day expander (SpecExpand).                            *)
(***************************************************************************)
TheComp == raw_events[1].comp

\* the derived end date of a date-only component
DerivedEndDate(c) ==
    IF c.dtend.kind = "date" THEN c.dtend.v
    ELSE IF c.duration.has THEN c.dtstart.v + (c.duration.v \div MinutesPerDay)
    ELSE c.dtstart.v

\* C4: a date-only component with start date S and derived end date E yields,
\* for target date T, exactly one all-day instance from local midnight of T to
\* local midnight of T+1 if S <= T < E and nothing otherwise, with or without
\* a repetition rule.
C4_DateOnly ==
    (pc # "expand_event_for_day" /\ TheComp.dtstart.kind = "date") =>
        /\ pc = "returned"
        /\ IF TheComp.dtstart.v <= d /\ d < DerivedEndDate(TheComp)
           THEN /\ Len(final) = 1
                /\ final[1].start = d * MinutesPerDay
                /\ final[1].end = (d + 1) * MinutesPerDay
                /\ final[1].meta.all_day = TRUE
           ELSE final = <<>>

\* C4 witness: the second day of a two-day date-only series given by a duration
C4_Witness ==
    /\ pc = "returned"
    /\ TheComp.dtstart.kind = "date" /\ TheComp.rrule.has
    /\ TheComp.dtend.kind = "none" /\ TheComp.duration.has
    /\ TheComp.dtstart.v < d /\ d + 1 = DerivedEndDate(TheComp)
    /\ Len(final) = 1 /\ final[1].meta.all_day

\* the rule occurrences between(sod, sod_next, inc=True) ranges over
WindowOccurrences ==
    {t \in (d * MinutesPerDay)..((d + 1) * MinutesPerDay) :
        /\ t >= TheComp.dtstart.v
        /\ (t - TheComp.dtstart.v) % TheComp.rrule.interval = 0
        /\ TheComp.rrule.until.kind = "aware" => t <= TheComp.rrule.until.v}

\* the occurrence is overridden for the component's own UID
Overridden(occ) ==
    /\ TheComp.uid \in DOMAIN override_map
    /\ Aware(occ) \in override_map[TheComp.uid]

\* the occurrence is one of the component's exception dates (a naive one is
\* read in the local zone)
Excluded(occ) ==
    \E x \in TheComp.exdate : x.kind \in {"aware", "naive"} /\ x.v = occ

Emitted(occ) == \E k \in 1..Len(instances) : instances[k].start = occ

RecurringReturned ==
    pc = "returned" /\ TheComp.rrule.has /\ TheComp.dtstart.kind = "aware"

BeforeReclassification ==
    LET re == raw_events[1]
        sod == d * MinutesPerDay
    IN  IF TheComp.rrule.has
        THEN RuleInstances(re.comp, re.color, re.tzf, sod, sod + MinutesPerDay,
                           settings.TZ_LOCAL, override_map)
        ELSE OneOffInstances(re.comp, re.color, re.tzf, d, settings.TZ_LOCAL)

\* C7: a timed instance that overlaps the target day is, when the off-grid policy
\* is enabled and it ends at or before the grid-start hour or starts at or after
\* the grid-end hour, returned with start = max(start, startOfDay),
\* end = min(end, startOfNextDay), all_day = true and a time_label of its
\* original start and end; otherwise it is returned unchanged, all_day = false
\* and without time_label.
C7_OffGrid ==
    (pc = "returned" /\ TheComp.dtstart.kind # "date") =>
        LET sod  == d * MinutesPerDay
            next == (d + 1) * MinutesPerDay
            pre  == SelectSeq(BeforeReclassification,
                              LAMBDA e : e.end > sod /\ e.start < next)
        IN  /\ Len(final) = Len(pre)
            /\ \A k \in 1..Len(pre) :
                  IF /\ settings.CONVERT_OFFGRID_TO_ALLDAY
                     /\ \/ pre[k].end <= sod + settings.START_HOUR * MinutesPerHour
                        \/ pre[k].start >= sod + settings.END_HOUR * MinutesPerHour
                  THEN /\ final[k].start = (IF pre[k].start > sod THEN pre[k].start ELSE sod)
                       /\ final[k].end = (IF pre[k].end < next THEN pre[k].end ELSE next)
                       /\ final[k].title = pre[k].title
                       /\ final[k].meta.all_day = TRUE
                       /\ final[k].meta.time_label
                            = <<fmt_time(pre[k].start), fmt_time(pre[k].end)>>
                  ELSE /\ final[k] = pre[k]
                       /\ final[k].meta.all_day = FALSE
                       /\ final[k].meta.time_label = <<>>

\* C7 witness: an evening instance running past midnight is clamped and labelled
C7_Witness ==
    /\ pc = "returned"
    /\ \E k \in 1..Len(final) :
          /\ final[k].meta.all_day
          /\ final[k].start = d * MinutesPerDay + 1320
          /\ final[k].end = (d + 1) * MinutesPerDay
          /\ final[k].meta.time_label = <<<<22, 0>>, <<22, 0>>>>

(***************************************************************************)
(* Properties of the per-day loop (SpecDay).                               *)
(***************************************************************************)
LoopDone == pc \in {"filtered", "sorted", "rendered"} \/ (pc = "expand" /\ raw_i > Len(raw_events))

ExpansionOf(k) ==
    expand_event_for_day(raw_events[k].comp, raw_events[k].color, raw_events[k].tzf,
                         d, settings, override_map).final

\* every instance the expander emits for the date, in raw-event order
RECURSIVE EmittedUpTo(_)
EmittedUpTo(k) == IF k = 0 THEN <<>> ELSE EmittedUpTo(k - 1) \o ExpansionOf(k)

EmittedForDay == EmittedUpTo(Len(raw_events))

\* C3: after the expand-and-dedupe loop the day's instance list holds at most one
\* instance per UID, and it is the first one emitted in raw-event order.
C3_Dedupe ==
    LoopDone =>
        LET em    == EmittedForDay
            first == {p \in 1..Len(em) : \A q \in 1..(p - 1) : em[q].meta.uid # em[p].meta.uid}
            order == Ascending(first)
        IN  /\ \A a, b \in 1..Len(instances) :
                  a # b => instances[a].meta.uid # instances[b].meta.uid
            /\ instances = [k \in 1..Len(order) |-> em[order[k]]]
            /\ seen = {em[p].meta.uid : p \in 1..Len(em)}

\* C3 witness: a series with two occurrences on the date and an override of the
\* same UID emit three instances, of which the first is kept
C3_Witness ==
    /\ LoopDone
    /\ Len(raw_events) = 2
    /\ Len(ExpansionOf(1)) = 2 /\ Len(ExpansionOf(2)) = 1
    /\ raw_events[2].comp.recurrence_id.kind = "aware"
    /\ Len(instances) = 1 /\ instances[1] = ExpansionOf(1)[1]

\* raw event o overrides an occurrence of the series s
OverridesOccurrence(s, o) ==
    /\ s.rrule.has /\ s.dtstart.kind = "aware"
    /\ o.recurrence_id.kind = "aware" /\ ~o.rrule.has
    /\ o.uid = s.uid
    /\ o.recurrence_id.v >= s.dtstart.v
    /\ (o.recurrence_id.v - s.dtstart.v) % s.rrule.interval = 0

\* C6: with a series and an override of one of its occurrences among
\* the raw events, in either order, the series contributes no instance at the
\* overridden instant on that date, and on the date of the override's own start
\* the override's instance is in the day's deduplicated list.
C6_Override ==
    LoopDone =>
        \A a, b \in 1..Len(raw_events) :
            OverridesOccurrence(raw_events[a].comp, raw_events[b].comp) =>
                LET o == raw_events[b].comp
                IN  /\ d = DateOf(o.recurrence_id.v) =>
                          \A k \in 1..Len(ExpansionOf(a)) :
                              ExpansionOf(a)[k].start # o.recurrence_id.v
                    /\ d = DateOf(o.dtstart.v) =>
                          \E k \in 1..Len(instances) :
                              /\ instances[k].title = o.summary
                              /\ instances[k].start = o.dtstart.v

\* the title matches the denylist (lines 296-300)
Denylisted(e) ==
    \E w \in 1..Len(settings.FILTER_BLOCKED_WORDS) :
        \/ IsSubstring(settings.FILTER_BLOCKED_WORDS[w], Lower(e.title))
        \/ settings.FILTER_BLOCKED_WORDS[w] = <<>>

InSeq(x, sq) == \E k \in 1..Len(sq) : sq[k] = x

\* C8: the filter drops every timed instance shorter than 15 minutes,
\* keeps a timed instance of exactly 15 minutes that passes the other rules, and
\* removes no all-day instance for its duration.
C8_MinDuration ==
    pc = "filtered" =>
        LET sp == split_all_day_events(instances, d)
        IN  /\ \A k \in 1..Len(timed) : timed[k].end - timed[k].start >= 15
            /\ \A k \in 1..Len(sp.timed) :
                  LET e == sp.timed[k]
                  IN  (/\ e.end - e.start = 15
                       /\ DateOf(e.start) = d
                       /\ HourOf(e.start) >= settings.EXCLUDE_BEFORE
                       /\ HourOf(e.start) < settings.END_HOUR
                       /\ ~Denylisted(e)) => InSeq(e, timed)
            /\ \A k \in 1..Len(sp.all_day) :
                  LET e == sp.all_day[k]
                  IN  (e.meta.all_day /\ ~Denylisted(e)) => InSeq(e, all_day)

(***************************************************************************)
(* Properties of the change-detection digest.                              *)
(***************************************************************************)
\* C9: compute_events_hash is invariant under any permutation of the raw-event
\* list, is unchanged when only DTSTAMP, CREATED, LAST-MODIFIED or SEQUENCE of
\* a component changes, and changes when a component's title changes.
C9_Hash ==
    (pc = "hashed" /\ change.kind # "none") =>
        /\ change.kind \in {"reorder", "volatile"} => new_hash = change.hash_before
        /\ change.kind = "title" => new_hash # change.hash_before

\* C9 witness: two events of one calendar with different contents arrive in the
\* other order and the digest has been computed again
C9_Witness ==
    /\ pc = "hashed"
    /\ change.kind = "reorder"
    /\ new_hash = change.hash_before
    /\ \E a, b \in 1..Len(raw_events) :
            /\ a < b
            /\ raw_events[a].name = raw_events[b].name
            /\ raw_events[a].comp.summary # raw_events[b].comp.summary

(***************************************************************************)
(* Properties of a run.                                                    *)
(***************************************************************************)
\* the persisted record matches this run's date range and calendars
RecordMatches ==
    /\ MetaGet(persisted, "last_anchor") = Anchor(date_list)
    /\ persisted.has
    /\ persisted.events_hash = compute_events_hash(config.calendars)

\* C10: a run skips generation if and only if the force-refresh flag is not
\* set and the anchor and the events hash equal the persisted ones; in every
\* other case the run regenerates.
C10_SkipIff ==
    pc \notin {"main", "detect"} =>
        /\ pc \in {"skipped", "regenerating"}
        /\ pc = "skipped" <=> (~settings.FORCE_REFRESH /\ RecordMatches)

\* the record is the one a completed run over this run's dates and calendars leaves
FollowsCompletedRun ==
    persisted = Record(Anchor(date_list), compute_events_hash(config.calendars))

\* C11: across runs the persisted record is overwritten only by a run that has
\* rendered every date and written its output, and then holds that run's anchor
\* and hash; a run that skips or aborts leaves it unchanged; so a run that
\* follows a completed run with the same events, the same date range and no
\* force-refresh skips generation.
C11_Persistence ==
    /\ [][persisted' # persisted =>
            /\ pc = "written"
            /\ Len(rendered) = Len(date_list)
            /\ persisted' = Record(anchor, new_hash)]_vars
    /\ []((FollowsCompletedRun /\ ~settings.FORCE_REFRESH /\ pc \notin {"main", "detect"})
            => pc = "skipped")

(***************************************************************************)
(* Properties of the loader.                                               *)
(***************************************************************************)
\* the raw events of the files of entry k that can be read
ReadableEvents(k) ==
    UNION {{extract_raw_events(sources[k].files[f], sources[k].color, sources[k].name)[j] :
                j \in 1..Len(sources[k].files[f].comps)} :
            f \in {g \in 1..Len(sources[k].files) : ~sources[k].files[g].fails}}

SourceFails(k) == \E f \in 1..Len(sources[k].files) : sources[k].files[f].fails

\* C12: when some source fails to fetch or parse, load_raw_events does not
\* abort: it returns the events of every source that did not fail and omits
\* only the failed source's events.
C12_FailureIsolated ==
    pc \in {"returned", "raised"} =>
        /\ pc = "returned"
        /\ \A k \in 1..Len(sources) :
              ~SourceFails(k) => \A e \in ReadableEvents(k) : InSeq(e, raw_events)
        /\ \A j \in 1..Len(raw_events) :
              \E k \in 1..Len(sources) : raw_events[j] \in ReadableEvents(k)

(***************************************************************************)
(* Properties of the expansion as a function of its inputs.                *)
(***************************************************************************)
SecondPassDone == LoopDone /\ first_pass # <<>>

\* C13: the per-day expand-and-dedupe step, run a second time on the same raw
\* events (the component objects as the first run left them), override index
\* and date, yields the same sequence of instances, and no UID occurs twice
\* in it.
C13_Idempotent ==
    SecondPassDone =>
        /\ instances = first_pass[1]
        /\ \A j, k \in 1..Len(instances) :
              instances[j].meta.uid = instances[k].meta.uid => j = k

\* both passes emitted an instance of a series whose date-only UNTIL the first
\* pass rewrote
C13_Witness ==
    /\ SecondPassDone
    /\ instances # <<>>
    /\ \E k \in 1..Len(raw_events) :
          /\ raw_events[k].comp.rrule.until.kind = "aware"
          /\ \E j \in 1..Len(instances) : instances[j].meta.uid = raw_events[k].comp.uid

\* C14: expand_event_for_day, split_all_day_events, filter_events_for_day and
\* assign_stacks leave their inputs unchanged: no step of the per-day loop
\* changes a raw event component (the UNTIL of its rule included) or the
\* override index.
C14_InputsUnchanged ==
    [][raw_events' = raw_events /\ override_map' = override_map]_vars

\* C15: every instance expand_event_for_day returns has end >= start, also
\* for a component whose DTEND precedes its DTSTART; a component with neither
\* DTEND nor DURATION yields instances with end = start.
C15_EndNotBeforeStart ==
    pc = "returned" =>
        \A k \in 1..Len(final) :
            /\ final[k].end >= final[k].start
            /\ (raw_events[1].comp.dtend.kind = "none" /\ ~raw_events[1].comp.duration.has)
                  => final[k].end = final[k].start

(***************************************************************************)
(* Properties of the classification steps (SpecClassify).                  *)
(***************************************************************************)
Filtering == pc = "classified" /\ pc' = "filtered"

\* the span is [startOfDay, startOfNextDay) of the date
ExactDaySpan(e) ==
    e.start = StartOfDay(d) /\ e.end = StartOfDay(d) + MinutesPerDay

\* C16: split_all_day_events puts an instance in the all-day list if and only
\* if its all_day flag is set or its span is exactly the day of the target
\* date, and every other instance in the timed list; each list holds its
\* instances unmodified and in input order.
C16_SplitExact ==
    pc = "classified" =>
        /\ all_day = SelectSeq(instances, LAMBDA e : e.meta.all_day \/ ExactDaySpan(e))
        /\ timed = SelectSeq(instances, LAMBDA e : ~(e.meta.all_day \/ ExactDaySpan(e)))

\* v occurs in tl
Contains(tl, v) ==
    \E k \in 0..(Len(tl) - Len(v)) : SubSeq(tl, k + 1, k + Len(v)) = v

\* the lowercased title contains an entry of the denylist or the lowercased
\* status is one
OnDenylist(e) ==
    \E w \in 1..Len(settings.FILTER_BLOCKED_WORDS) :
        \/ Contains(Lower(e.title), settings.FILTER_BLOCKED_WORDS[w])
        \/ Lower(IF "status" \in DOMAIN e.meta THEN e.meta.status ELSE <<>>)
              = settings.FILTER_BLOCKED_WORDS[w]

\* the start-date and visible-hour rules apply to the start of e
OutsideVisibleHours(e) ==
    \/ DateOf(e.start) # d
    \/ HourOf(e.start) < settings.EXCLUDE_BEFORE
    \/ HourOf(e.start) >= settings.END_HOUR

\* C17: in split followed by filter, the start-date and visible-hour rules
\* drop an instance if and only if it was classified as timed and starts on
\* another date, before the earliest-visible hour or at or after the
\* latest-visible hour; an instance classified as all-day is never dropped by
\* these rules.
C17_StartRules ==
    [][Filtering =>
          /\ \A k \in 1..Len(all_day) :
                (~OnDenylist(all_day[k]) /\ all_day[k].end - all_day[k].start >= 15)
                    => InSeq(all_day[k], all_day')
          /\ \A k \in 1..Len(timed) :
                (~OnDenylist(timed[k]) /\ timed[k].end - timed[k].start >= 15)
                    => (InSeq(timed[k], timed') <=> ~OutsideVisibleHours(timed[k]))]_vars

\* e passes the rules of the filter other than the denylist (lines 287-295, 301-304)
PassesOtherRules(e) ==
    /\ ~e.meta.all_day => ~OutsideVisibleHours(e)
    /\ e.end - e.start >= 15

\* C18: filter_events_for_day drops every instance, timed or all-day, whose
\* lowercased title contains an entry of the denylist or whose lowercased
\* status is an entry, and drops no other instance on denylist grounds.
C18_Denylist ==
    [][Filtering =>
          \A io \in {<<all_day, all_day'>>, <<timed, timed'>>} :
             \A k \in 1..Len(io[1]) :
                /\ OnDenylist(io[1][k]) => ~InSeq(io[1][k], io[2])
                /\ (~OnDenylist(io[1][k]) /\ PassesOtherRules(io[1][k]))
                      => InSeq(io[1][k], io[2])]_vars

\* the filter has dropped an all-day instance and a timed instance for their
\* titles, or a timed instance for its status
C18_Witness ==
    /\ pc = "filtered"
    /\ \E j \in 1..Len(instances) :
          /\ OnDenylist(instances[j]) /\ PassesOtherRules(instances[j])
          /\ \/ /\ instances[j].meta.all_day
                /\ \E k \in 1..Len(instances) :
                      /\ ~instances[k].meta.all_day
                      /\ OnDenylist(instances[k]) /\ PassesOtherRules(instances[k])
                      /\ Lower(instances[k].title) # instances[k].title
             \/ "status" \in DOMAIN instances[j].meta

\* out holds some of the items of inp, each as it is and at most as often as in
\* inp, by start ascending, items of equal start in the order they have in inp
StableSortedPart(inp, out) ==
    \E idx \in [1..Len(out) -> 1..Len(inp)] :
        /\ \A k \in 1..Len(out) : out[k] = inp[idx[k]]
        /\ \A j, k \in 1..Len(out) :
              j < k => \/ out[j].start < out[k].start
                       \/ out[j].start = out[k].start /\ idx[j] < idx[k]

\* C19: the list filter_events_for_day returns is sorted by start ascending,
\* instances of equal start keep their input order, and every returned
\* instance is an unmodified input instance, none added or duplicated.
C19_SortedPart ==
    [][Filtering => /\ StableSortedPart(all_day, all_day')
                    /\ StableSortedPart(timed, timed')]_vars

\* the filter has returned two different instances of equal start
C19_Witness ==
    /\ pc = "filtered"
    /\ Len(timed) = 2
    /\ timed[1].start = timed[2].start
    /\ timed[1] # timed[2]

\* the bucket of an all-day instance: 1 pre, 2 true all-day, 3 other, 4 post
BucketOf(e) ==
    LET sod        == StartOfDay(d)
        grid_start == sod + settings.START_HOUR * MinutesPerHour
        grid_end   == sod + settings.END_HOUR * MinutesPerHour
    IN  IF e.end <= grid_start THEN 1
        ELSE IF e.start = sod /\ e.end = sod + MinutesPerDay THEN 2
        ELSE IF e.start >= grid_end THEN 4
        ELSE 3

BucketKey(e) == IF BucketOf(e) = 1 THEN e.end ELSE e.start

\* C20: the all-day sequence handed to the renderer is a permutation of the
\* filtered all-day instances, the buckets in the order pre, true, other,
\* post, sorted within the buckets by end, start, start and start.
C20_AllDayOrder ==
    [][(pc = "filtered" /\ pc' = "sorted") =>
          /\ Len(all_day') = Len(all_day)
          /\ \E idx \in [1..Len(all_day) -> 1..Len(all_day)] :
                /\ \A j, k \in 1..Len(all_day) : idx[j] = idx[k] => j = k
                /\ \A k \in 1..Len(all_day) : all_day'[k] = all_day[idx[k]]
          /\ \A j, k \in 1..Len(all_day') :
                j < k => \/ BucketOf(all_day'[j]) < BucketOf(all_day'[k])
                         \/ /\ BucketOf(all_day'[j]) = BucketOf(all_day'[k])
                            /\ BucketKey(all_day'[j]) <= BucketKey(all_day'[k])]_vars

\* two pre-grid instances are ordered by end against their order by start
C20_Witness ==
    /\ pc = "sorted"
    /\ Len(all_day) = 2
    /\ BucketOf(all_day[1]) = 1 /\ BucketOf(all_day[2]) = 1
    /\ all_day[1].start > all_day[2].start

(***************************************************************************)
(* Properties of error handling in the per-day loop (SpecDay).             *)
(***************************************************************************)
\* C21: an error raised while the rule of a recurring component is evaluated
\* is recoverable: the expansion of the date goes on with the other
\* occurrences and the other raw events, and the loop is not aborted by a
\* recurring component.
C21_Recoverable ==
    pc = "raised" => ~raw_events[raw_i].comp.rrule.has

(***************************************************************************)
(* Properties of the override index (SpecDay).                             *)
(***************************************************************************)
\* the raw events in every order
Reorderings(sq) ==
    {[k \in 1..Len(sq) |-> sq[f[k]]] :
        f \in {g \in [1..Len(sq) -> 1..Len(sq)] : \A j, k \in 1..Len(sq) : g[j] = g[k] => j = k}}

\* C22: in the mapping build_override_map returns, the set at a UID is exactly
\* the set of RECURRENCE-ID values of the raw events of that UID that carry
\* one, a UID without such a raw event has no entry, and the mapping is the
\* same for every order of the raw events and every date.
C22_OverrideMap ==
    /\ \A u \in DOMAIN override_map : override_map[u] # {}
    /\ \A k \in 1..Len(raw_events) :
          LET c == raw_events[k].comp
          IN  c.recurrence_id.kind # "none"
                 => c.uid \in DOMAIN override_map /\ c.recurrence_id \in override_map[c.uid]
    /\ \A u \in DOMAIN override_map : \A t \in override_map[u] :
          \E k \in 1..Len(raw_events) :
             /\ raw_events[k].comp.uid = u
             /\ raw_events[k].comp.recurrence_id = t
             /\ t.kind # "none"
    /\ \A p \in Reorderings(raw_events) : build_override_map(p) = override_map

\* two overrides of one series, of different occurrences, beside each other
C22_Witness ==
    /\ Len(raw_events) = 2
    /\ raw_events[1].comp.uid = raw_events[2].comp.uid
    /\ raw_events[1].comp.recurrence_id.kind # "none"
    /\ raw_events[2].comp.recurrence_id.kind # "none"
    /\ raw_events[1].comp.recurrence_id # raw_events[2].comp.recurrence_id
    /\ Cardinality(override_map[raw_events[1].comp.uid]) = 2
    /\ pc = "rendered"

(***************************************************************************)
(* Properties of the clusters and layers of assign_stacks (SpecStacks).    *)
(* The title of an input of SpecStacks is its position in events.          *)
(***************************************************************************)
\* the clusters assign_stacks works on, as lists of positions in events
Clusters == FindClusters(OverlapGraph(events), Len(events), 1, {}, <<>>)

\* the events of a set of positions, in input order
Restricted(S) ==
    SelectSeq(events, LAMBDA e : e.title \in S)

\* the entry of position i in a layered list
EntryOf(layered, i) ==
    layered[CHOOSE r \in 1..Len(layered) : layered[r].title = i]

\* C23: the clusters of assign_stacks are the connected components of the
\* overlap graph: every event is in exactly one cluster, two events share a
\* cluster iff a chain of overlapping events links them, the layer_index and
\* width_frac of an event are those it gets when only the events of its
\* component are laid out, and an event that overlaps no other event gets
\* layer_index 0 and width_frac 1.
C23_Clusters ==
    pc = "stacked" =>
        LET cl     == Clusters
            holds  == [i \in 1..Len(events) |->
                          {c \in 1..Len(cl) : \E m \in 1..Len(cl[c]) : cl[c][m] = i}]
            linked == [i \in 1..Len(events) |-> Reach(events, {i})]
        IN  /\ \A i \in 1..Len(events) :
                  /\ Cardinality(holds[i]) = 1
                  /\ \A c \in holds[i] :
                        Cardinality({m \in 1..Len(cl[c]) : cl[c][m] = i}) = 1
            /\ \A i, j \in 1..Len(events) : holds[i] = holds[j] <=> j \in linked[i]
            /\ \A i \in 1..Len(events) :
                  LET alone == EntryOf(assign_stacks(Restricted(linked[i])), i)
                      here  == EntryOf(result, i)
                  IN  /\ here.layer_index = alone.layer_index
                      /\ here.width_frac = alone.width_frac
                      /\ linked[i] = {i} =>
                            here.layer_index = 0 /\ here.width_frac = <<1, 1>>

\* a chain: the first and the third event overlap the second but not each other
C23_Witness ==
    /\ pc = "stacked"
    /\ Len(events) = 3
    /\ overlaps(events[1], events[2]) /\ overlaps(events[2], events[3])
    /\ ~overlaps(events[1], events[3])
    /\ Len(Clusters) = 1

\* e is placed no later than f, up to the order of two events of equal key:
\* longer first, of equal duration the earlier start first
NotAfter(e, f) ==
    \/ e.end - e.start > f.end - f.start
    \/ e.end - e.start = f.end - f.start /\ e.start <= f.start

\* C24: within a cluster the events are placed by duration descending, then
\* start ascending, each into the lowest layer none of whose members overlaps
\* it: an event of layer k > 0 overlaps, in every layer j < k, an event of its
\* cluster placed no later than itself, and an event first in that order has
\* layer_index 0.
C24_Placement ==
    pc = "stacked" =>
        \A a \in 1..Len(result) :
            LET e       == result[a]
                members == ClusterOf(result, a)
            IN  /\ \A j \in 0..(e.layer_index - 1) :
                      \E b \in members \ {a} :
                         /\ result[b].layer_index = j
                         /\ result[b].start < e.end /\ e.start < result[b].end
                         /\ NotAfter(result[b], e)
                /\ (\A b \in members \ {a} : ~NotAfter(result[b], e)) => e.layer_index = 0

\* a longer event later in the input takes layer 0, the shorter one before it
\* in the input takes layer 1, and a third event is in layer 2
C24_Witness ==
    /\ pc = "stacked"
    /\ \E a, b, c \in 1..Len(result) :
          /\ result[a].title < result[b].title
          /\ result[b].end - result[b].start > result[a].end - result[a].start
          /\ result[b].layer_index = 0
          /\ result[a].layer_index = 1
          /\ result[c].layer_index = 2

(***************************************************************************)
(* Properties of the instance bounds of the day expander (SpecExpand).     *)
(***************************************************************************)
\* C25: for a timed component with a DURATION D and no DTEND every instance
\* emitted before the off-grid clamping has end - start = D, whatever the
\* kind of its DTSTART, its TZID and the local zone; for a recurring component
\* with a DTEND of the same kind and zone as its DTSTART every occurrence has
\* end - start = DTEND - DTSTART.
C25_DurationKept ==
    pc = "returned" /\ IsDatetime(TheComp.dtstart) =>
        \A k \in 1..Len(instances) :
            /\ (TheComp.dtend.kind = "none" /\ TheComp.duration.has)
                  => instances[k].end - instances[k].start = TheComp.duration.v
            /\ (/\ TheComp.rrule.has
                /\ TheComp.dtend.kind = TheComp.dtstart.kind
                /\ TheComp.dtend.tzid = TheComp.dtstart.tzid)
                  => instances[k].end - instances[k].start
                        = TheComp.dtend.v - TheComp.dtstart.v

\* C26: every instance expand_event_for_day returns for date T starts inside
\* the day and ends after its beginning: startOfDay(T) <= start <
\* startOfNextDay(T) and end > startOfDay(T).  A timed one-off event that
\* started before T yields no instance for T, and an occurrence at exactly
\* startOfNextDay(T) is not returned.
C26_InsideDay ==
    pc = "returned" =>
        /\ \A k \in 1..Len(final) :
              /\ StartOfDay(d) <= final[k].start
              /\ final[k].start < StartOfDay(d) + MinutesPerDay
              /\ final[k].end > StartOfDay(d)
        /\ (/\ TheComp.dtstart.kind = "aware"
            /\ ~TheComp.rrule.has
            /\ TheComp.dtstart.v < StartOfDay(d)) => final = <<>>

\* the rule has an occurrence at the start of the next day and one inside the
\* day; only the latter is returned
C26_Witness ==
    /\ pc = "returned"
    /\ \E k \in 1..Len(instances) : instances[k].start = StartOfDay(d) + MinutesPerDay
    /\ final # <<>>

(***************************************************************************)
(* Properties of the concurrent fetches (SpecLoad).                        *)
(***************************************************************************)
\* the events of the readable files of the entries of one kind, entry by entry
\* in the configured order
RECURSIVE EventsInOrder(_, _)
EventsInOrder(entries, k) ==
    IF k > Len(entries) THEN <<>>
    ELSE LET e == entries[k]
             RECURSIVE OfFiles(_)
             OfFiles(f) ==
                 IF f > Len(e.files) THEN <<>>
                 ELSE (IF e.files[f].fails THEN <<>>
                       ELSE [j \in 1..Len(e.files[f].comps) |->
                               [comp |-> e.files[f].comps[j], color |-> e.color,
                                tzf |-> e.files[f].tzf, name |-> e.name]])
                      \o OfFiles(f + 1)
         IN  OfFiles(1) \o EventsInOrder(entries, k + 1)

LocalEntries == SelectSeq(sources, LAMBDA e : e.kind # "http")
HttpEntries  == SelectSeq(sources, LAMBDA e : e.kind = "http")

\* C27: for every completion order of the network fetches load_raw_events
\* returns the same sequence, a function of the sources and their contents:
\* nothing is accumulated before every fetch has settled, the results are then
\* taken in the order of the configured sources, and a fetch that fails
\* leaves the result of every other fetch as it is.
C27_CompletionOrder ==
    /\ pc = "gather" =>
          /\ all_events = EventsInOrder(LocalEntries, 1)
          /\ \A k \in 1..Len(http_results) :
                http_results[k].settled =>
                    /\ http_results[k].failed = HttpEntries[k].files[1].fails
                    /\ http_results[k].events = EventsInOrder(<<HttpEntries[k]>>, 1)
    /\ pc = "returned" =>
          raw_events = SortByDtstart(EventsInOrder(LocalEntries, 1)
                                        \o EventsInOrder(HttpEntries, 1))

\* two fetches of events with the same DTSTART, the second source settled
\* before the first
C27_Witness ==
    /\ pc = "gather"
    /\ Len(http_results) = 2
    /\ http_results[2].settled /\ ~http_results[1].settled
    /\ http_results[2].events # <<>>
    /\ \E j \in 1..Len(HttpEntries[1].files[1].comps) :
          dtstart_value(HttpEntries[1].files[1].comps[j])
             = dtstart_value(http_results[2].events[1].comp)

(***************************************************************************)
(* Properties of the output list of assign_stacks (SpecStacks).            *)
(***************************************************************************)
\* C28: assign_stacks returns exactly one layered event per input instance,
\* with start, end, title and metadata unchanged, none dropped or duplicated,
\* also for the empty list, zero-length instances and identical intervals;
\* the denominator of every width_frac is at least 1.
C28_OnePerInput ==
    pc = "stacked" =>
        /\ Len(result) = Len(events)
        /\ \A i \in 1..Len(events) :
              \E r \in 1..Len(result) :
                 /\ result[r].title = events[i].title
                 /\ result[r].start = events[i].start
                 /\ result[r].end = events[i].end
                 /\ result[r].meta = events[i].meta
                 /\ \A q \in 1..Len(result) : result[q].title = events[i].title => q = r
        /\ \A r \in 1..Len(result) : result[r].width_frac[2] >= 1

\* a zero-length instance between two instances of identical interval, which
\* the output lists before it
C28_Witness ==
    /\ pc = "stacked"
    /\ Len(events) = 3
    /\ events[2].start = events[2].end
    /\ events[1].start = events[3].start /\ events[1].end = events[3].end
    /\ events[1].start < events[1].end
    /\ result[2].title = 3

\* C29: the layer indices used within one cluster are exactly 0, 1, ...,
\* maxDepth - 1, so every cluster has an event with layer_index 0 and
\* width_frac 1, and maxDepth is at most the number of events of the cluster.
C29_NoGap ==
    pc = "stacked" =>
        \A a \in 1..Len(result) :
            LET maxDepth == result[a].width_frac[2]
            IN  /\ LayersOpened(result, a) = 0..(maxDepth - 1)
                /\ \E b \in ClusterOf(result, a) :
                      /\ result[b].layer_index = 0
                      /\ result[b].width_frac = <<maxDepth, maxDepth>>
                /\ maxDepth <= Cardinality(ClusterOf(result, a))

\* a cluster of three events in two layers
C29_Witness ==
    /\ pc = "stacked"
    /\ \E a \in 1..Len(result) :
          /\ Cardinality(ClusterOf(result, a)) = 3
          /\ result[a].width_frac[2] = 2
          /\ result[a].layer_index = 1

(***************************************************************************)
(* Properties of change detection under a change of colour.                *)
(***************************************************************************)
\* the raw events as loaded after every calendar got another colour and
\* another timezone resolver
Recoloured(raws) ==
    [k \in 1..Len(raws) |-> [raws[k] EXCEPT !.color = "red", !.tzf = ZoneTzf]]

\* C30: compute_events_hash depends only on the calendar names and the
\* components without their volatile fields: raw events that differ only in
\* colour or timezone resolver have the same digest, so a run with an
\* unchanged date range and no force-refresh that follows a colour-only
\* change of the calendars skips generation.
C30_ColourOnly ==
    /\ compute_events_hash(Recoloured(config.calendars))
          = compute_events_hash(config.calendars)
    /\ (/\ config.calendars # <<>>
        /\ persisted = Record(Anchor(date_list),
                              compute_events_hash(Recoloured(config.calendars)))
        /\ ~settings.FORCE_REFRESH
        /\ pc \notin {"main", "detect"}) => pc = "skipped"

====
